---- MODULE Spec2Model ----
(***************************************************************************)
(* Quality-gated staged pipeline of the data-validation-engine repository: *)
(* quality scoring, auto-remediation, bronze -> silver promotion, schema   *)
(* and business-rule validation, and the Prefect flow that drives them.    *)
(*                                                                         *)
(* Each component has its own specification (SpecScore, SpecRemediate,     *)
(* SpecLoad, SpecPromote, SpecSchema, SpecRules, SpecFlow).  All           *)
(* specifications share one set of variables; a specification leaves the   *)
(* variables of the other components at their idle values.                 *)
(***************************************************************************)
EXTENDS Integers, Sequences, FiniteSets, TLC

VARIABLES
    \* QualityAgent (src/src/agents/agentic_agents.py)
    profile,          \* the profile dict handed to calculate_quality_score
    quality_score,    \* the value it returned
    scorePc,          \* "ready" before the call, "scored" after it, "alerted" at the end
    alertLog,         \* what send_quality_alert logged: "none", "ALERT" or "OK"
    \* RemediationAgent (src/src/agents/agentic_agents.py)
    remInput,         \* the DataFrame of the first auto_remediate call
    remIssues,        \* the issue list handed to every call
    remResults,       \* one record per auto_remediate call, in call order
    remediation_log,  \* RemediationAgent.remediation_log
    \* MedallionDuckDB (src/src/database/duckdb_manager.py)
    bronzeTable,      \* bronze.<table>: <<>> when absent, <<frame>> when registered
    bronzeParquet,    \* data/bronze/<table>.parquet, likewise
    loadHistory,      \* one record per finished load_to_bronze call
    silverParquet,    \* data/silver/<table>.parquet, likewise
    silverTable,      \* silver.<table>, likewise
    promotePc,        \* position inside promote_to_silver
    promoteDf,        \* its local df
    promoteHistory,   \* one record per finished promote_to_silver call
    \* schema validation step of the pipeline script (src/main.py)
    svInput,          \* the rows of df as loaded, row i at pandas index i - 1
    df_valid,         \* the rows the pipeline continues with
    df_failed_schema, \* err.failure_cases, the rows saved for review
    svPc,             \* "loaded" before the step, "passed" or "split" after it
    \* BusinessRuleValidator (src/src/validation/business_rules.py)
    brInput,          \* the rows handed to validate_all
    valid_df,         \* the rows it returned as valid
    failed_records,   \* the failure records it returned
    brPc,             \* "ready", then "returned" or "raised"
    \* agentic_etl_pipeline (src/src/orchestration/prefect_flows.py)
    taskState,        \* per task: "pending", "running", "awaiting_retry", "completed", "failed"
    attempts,         \* per task: the number of attempts started
    retryDelay,       \* per task: seconds waited before the pending re-attempt
    flowState,        \* "running", "completed" or "failed"
    goldOutcome,      \* per aggregate: "pending", "ok" or "failed"
    goldResults,      \* the keys of results in create_gold_aggregations
    goldParquet,      \* the aggregates with a parquet file under the gold path
    goldTables,       \* the tables of schema gold
    summary,          \* <<>> or the summary the flow returned
    pipelineFile,     \* what config/pipeline_config.yaml is: a member of ConfigKinds
    medallionFile,    \* what config/medallion_config.yaml is, likewise
    config,           \* what load_config returned: "unset", "file", "defaults",
                      \* "None" or "no_keys"
    lastError,        \* the exception that ended the run, "none" before
    \* DataProfilerAgent (src/src/agents/agentic_agents.py)
    profInput,        \* the DataFrame handed to profile_dataset
    issues_detected,  \* profile["issues_detected"] of the returned profile
    profPc,           \* "ready", then "returned" or "raised"
    \* GoldAggregator (src/src/transformations/gold_aggregator.py)
    aggInput,         \* the rows of the cleaned table handed to the GoldAggregator
    daily_sales,      \* <<>> or the result of create_daily_sales_summary
    ltv,              \* <<>> or the result of create_customer_ltv
    \* MedallionDuckDB.create_gold_aggregate (src/src/database/duckdb_manager.py)
    dbTables,         \* per table of the database: <<>> when absent, <<rows>> when it exists
    goldFiles,        \* per aggregate: <<>> or <<rows>> of its parquet file under the gold path
    lastAggregate,    \* <<>> or the record of the last create_gold_aggregate call
    \* agentic_etl_pipeline, steps 4 to 6 (src/src/orchestration/prefect_flows.py)
    df_raw,           \* the frame extract_raw_data returned, loaded to bronze in mode replace
    firstRun,         \* <<>> or the record of the first run over df_raw
    lastRun           \* <<>> or the record of the latest run over df_raw

scoreVars == <<profile, quality_score, scorePc, alertLog>>
remVars == <<remInput, remIssues, remResults, remediation_log>>
storeVars == <<bronzeTable, bronzeParquet, loadHistory, silverParquet, silverTable,
               promotePc, promoteDf, promoteHistory>>
schemaVars == <<svInput, df_valid, df_failed_schema, svPc>>
rulesVars == <<brInput, valid_df, failed_records, brPc>>
flowVars == <<taskState, attempts, retryDelay, flowState, goldOutcome,
              goldResults, goldParquet, goldTables, summary,
              pipelineFile, medallionFile, config, lastError>>
profVars == <<profInput, issues_detected, profPc>>
aggVars == <<aggInput, daily_sales, ltv>>
goldVars == <<dbTables, goldFiles, lastAggregate>>
runVars == <<df_raw, firstRun, lastRun>>
vars == <<scoreVars, remVars, storeVars, schemaVars, rulesVars, flowVars, profVars, aggVars, goldVars, runVars>>

----------------------------------------------------------------------------
(* Bounds of the model *)

MaxHigh == 11      \* length of the leading run of HIGH issues in a profile
MaxTail == 2       \* length of the free tail of a profile's issue list
MaxCols == 2       \* number of columns of a profile

----------------------------------------------------------------------------
(* Helpers *)

\* All sequences over S of length at most n
SeqUpTo(S, n) == UNION {[1..k -> S] : k \in 0..n}

\* n copies of x
Repeat(x, n) == [i \in 1..n |-> x]

Max(a, b) == IF a >= b THEN a ELSE b

----------------------------------------------------------------------------
(* QualityAgent.calculate_quality_score *)

\* Issues as the profiler emits them: severity, type and column (the message
\* and recommendation texts play no part in scoring or remediation).
IssueKinds ==
    { [severity |-> "HIGH",   type |-> "HIGH_NULL_RATE",  column |-> "name"],
      [severity |-> "MEDIUM", type |-> "DUPLICATES",      column |-> "ALL"],
      [severity |-> "LOW",    type |-> "WHITESPACE",      column |-> "name"],
      [severity |-> "INFO",   type |-> "LOW_CARDINALITY", column |-> "age"] }

HighIssue == [severity |-> "HIGH", type |-> "HIGH_NULL_RATE", column |-> "name"]

\* null_percentage values of a column profile, on both sides of the 20 and 50
\* thresholds
NullPcts == {0, 20, 21, 50, 51, 100}

\* for issue in profile.get('issues_detected', []): the severity penalty
IssuePenalty(issue) ==
    IF issue.severity = "HIGH" THEN 10
    ELSE IF issue.severity = "MEDIUM" THEN 5
    ELSE IF issue.severity = "LOW" THEN 2
    ELSE 0

\* A variant whose upper band starts at 50 instead of above it
NullPenalty_FromFifty(null_pct) ==
    IF null_pct >= 50 THEN 5
    ELSE IF null_pct > 20 THEN 2
    ELSE 0

\* for col, col_profile in profile.get('columns', {}).items(): the null penalty
NullPenalty(null_pct) ==
    IF null_pct > 50 THEN 5
    ELSE IF null_pct > 20 THEN 2
    ELSE 0

RECURSIVE PenalizeIssues(_, _, _)
PenalizeIssues(score, issues, i) ==
    IF i > Len(issues) THEN score
    ELSE PenalizeIssues(score - IssuePenalty(issues[i]), issues, i + 1)

RECURSIVE PenalizeNulls(_, _, _)
PenalizeNulls(score, columns, i) ==
    IF i > Len(columns) THEN score
    ELSE PenalizeNulls(score - NullPenalty(columns[i].null_percentage), columns, i + 1)

\* A variant that returns the score without the final max(0, score)
calculate_quality_score_unclamped(p) ==
    PenalizeNulls(PenalizeIssues(100, p.issues_detected, 1), p.columns, 1)

\* QualityAgent.calculate_quality_score: return max(0, score)
calculate_quality_score(p) ==
    Max(0, PenalizeNulls(PenalizeIssues(100, p.issues_detected, 1), p.columns, 1))

Profiles ==
    { [issues_detected |-> Repeat(HighIssue, h) \o tail, columns |-> cols] :
        h \in 0..MaxHigh,
        tail \in SeqUpTo(IssueKinds, MaxTail),
        cols \in SeqUpTo([null_percentage : NullPcts], MaxCols) }

ScoreIdle ==
    /\ profile = [issues_detected |-> <<>>, columns |-> <<>>]
    /\ quality_score = 100
    /\ scorePc = "idle"
    /\ alertLog = "none"

ScoreInit ==
    /\ profile \in Profiles
    /\ quality_score = 100
    /\ scorePc = "ready"
    /\ alertLog = "none"

\* score = quality_agent.calculate_quality_score(profile)
CalculateQualityScore ==
    /\ scorePc = "ready"
    /\ quality_score' = calculate_quality_score(profile)
    /\ scorePc' = "scored"
    /\ UNCHANGED <<profile, alertLog>>

AlertThreshold == 80

\* A variant that also alerts when the score equals the threshold
send_quality_alert_AtOrBelow(score, threshold) ==
    IF score <= threshold THEN "ALERT" ELSE "OK"

\* send_quality_alert(quality_score, threshold): the warning "ALERT: Quality
\* score ... is below threshold" or the info line "meets threshold"
send_quality_alert(score, threshold) ==
    IF score < threshold THEN "ALERT" ELSE "OK"

\* send_quality_alert(quality_score, threshold=80.0) in the flow body
SendQualityAlert ==
    /\ scorePc = "scored"
    /\ alertLog' = send_quality_alert(quality_score, AlertThreshold)
    /\ scorePc' = "alerted"
    /\ UNCHANGED <<profile, quality_score>>

----------------------------------------------------------------------------
(* DataFrames                                                               *)
(*                                                                          *)
(* A cell is [null, v]: a null cell has null = TRUE and the default v of    *)
(* its dtype.  A text value is the sequence of its characters, so that      *)
(* strip_chars is computed and not assumed.  A row maps each column of the  *)
(* frame to a cell; a frame is [columns, rows].                             *)

MaxRows == 2     \* rows of a DataFrame handed to auto_remediate

NullText == [null |-> TRUE, v |-> <<>>]
NullInt == [null |-> TRUE, v |-> 0]
Text(chars) == [null |-> FALSE, v |-> chars]
Int64(n) == [null |-> FALSE, v |-> n]

\* dtype of the columns of the modelled frames
Dtype(col) ==
    IF col \in {"name", "Order_ID", "order_id", "order_date"} THEN "Utf8" ELSE "Int64"

IsSpace(ch) == ch = " "

\* str.strip_chars(): leading and trailing whitespace removed
RECURSIVE StripLeft(_)
StripLeft(chars) ==
    IF chars # <<>> /\ IsSpace(Head(chars)) THEN StripLeft(Tail(chars)) ELSE chars

RECURSIVE StripRight(_)
StripRight(chars) ==
    IF chars # <<>> /\ IsSpace(chars[Len(chars)])
    THEN StripRight(SubSeq(chars, 1, Len(chars) - 1))
    ELSE chars

strip_chars(cell) ==
    IF cell.null THEN cell ELSE Text(StripRight(StripLeft(cell.v)))

\* df.filter(...): the rows at the indices `keep`, in their order
RECURSIVE FilterRows(_, _, _)
FilterRows(rows, keep, i) ==
    IF i > Len(rows) THEN <<>>
    ELSE IF i \in keep THEN <<rows[i]>> \o FilterRows(rows, keep, i + 1)
    ELSE FilterRows(rows, keep, i + 1)

RowSet(rows) == {rows[i] : i \in DOMAIN rows}

\* number of occurrences of row r
CountRow(rows, r) == Cardinality({i \in DOMAIN rows : rows[i] = r})

\* df.unique(): one copy of each distinct row.  polars' maintain_order
\* defaults to False, so the order of the result is not determined by the
\* input: every arrangement of the distinct rows is a possible result.
unique(rows) ==
    LET S == RowSet(rows)
        n == Cardinality(S)
    IN  {out \in [1..n -> S] : \A i, j \in 1..n : i # j => out[i] # out[j]}

null_count(rows, col) == Cardinality({i \in DOMAIN rows : rows[i][col].null})

InColumns(df, col) == \E i \in DOMAIN df.columns : df.columns[i] = col

\* df.drop(col); a frame left without columns has no rows
RECURSIVE DropFromSeq(_, _)
DropFromSeq(cols, col) ==
    IF cols = <<>> THEN <<>>
    ELSE IF Head(cols) = col THEN DropFromSeq(Tail(cols), col)
    ELSE <<Head(cols)>> \o DropFromSeq(Tail(cols), col)

drop(df, col) ==
    LET cols == DropFromSeq(df.columns, col)
        keep == {cols[i] : i \in DOMAIN cols}
    IN  [columns |-> cols,
         rows |-> IF cols = <<>> THEN <<>>
                  ELSE [i \in DOMAIN df.rows |-> [c \in keep |-> df.rows[i][c]]]]

\* df.with_columns(pl.col(col).str.strip_chars().alias(col))
TrimColumn(df, col) ==
    [df EXCEPT !.rows =
        [i \in DOMAIN df.rows |-> [df.rows[i] EXCEPT ![col] = strip_chars(@)]]]

----------------------------------------------------------------------------
(* RemediationAgent.auto_remediate *)

MaxIssues == 2     \* length of the issue list handed to auto_remediate
MaxCalls == 2      \* auto_remediate calls chained on one agent

NoColumn == "-"    \* an action dict without a 'column' key
NoCount == -1      \* an action dict without a 'rows_removed' key

Action(issue, kind, col, removed) ==
    [issue |-> issue, action |-> kind, column |-> col,
     rows_removed |-> removed, status |-> "SUCCESS"]

\* A state of the loop over the issues: the frame so far, the actions so far,
\* and "error" once an exception has left the function.
Appended(s, df, action) ==
    [df |-> df, actions |-> Append(s.actions, action), status |-> s.status]

\* issue['type'] == 'WHITESPACE'  (agentic_agents.py 328-340)
FixWhitespace(s, issue) ==
    LET col == issue.column IN
    IF InColumns(s.df, col) /\ Dtype(col) = "Utf8"
    THEN {Appended(s, TrimColumn(s.df, col),
                   Action(issue, "TRIMMED_WHITESPACE", col, NoCount))}
    ELSE {s}

\* a variant that logs the action only when a row was removed
FixDuplicates_OnlyWhenRemoved(s, issue) ==
    { IF Len(out) < Len(s.df.rows)
      THEN Appended(s, [s.df EXCEPT !.rows = out],
                    Action(issue, "REMOVED_DUPLICATES", NoColumn,
                           Len(s.df.rows) - Len(out)))
      ELSE [s EXCEPT !.df.rows = out] : out \in unique(s.df.rows) }

\* issue['type'] == 'DUPLICATES'  (agentic_agents.py 342-352)
FixDuplicates(s, issue) ==
    { Appended(s, [s.df EXCEPT !.rows = out],
               Action(issue, "REMOVED_DUPLICATES", NoColumn,
                      Len(s.df.rows) - Len(out))) : out \in unique(s.df.rows) }

\* pl.col(col) >= 0: a null compares to null, and filter drops the row
NonNegative(cell) == ~cell.null /\ cell.v >= 0

\* issue['type'] == 'NEGATIVE_VALUES'  (agentic_agents.py 354-367)
FixNegatives(s, issue) ==
    LET col == issue.column IN
    IF InColumns(s.df, col)
    THEN LET rows == s.df.rows
             out == FilterRows(rows, {i \in DOMAIN rows : NonNegative(rows[i][col])}, 1)
         IN  {Appended(s, [s.df EXCEPT !.rows = out],
                       Action(issue, "FILTERED_NEGATIVE_VALUES", col,
                              Len(s.df.rows) - Len(out)))}
    ELSE {s}

NullRateThreshold == 80

\* issue['type'] == 'HIGH_NULL_RATE'  (agentic_agents.py 369-382).
\* null_count() / len(df_fixed) raises ZeroDivisionError on an empty frame.
FixHighNullRate(s, issue) ==
    LET col == issue.column IN
    IF ~InColumns(s.df, col) THEN {s}
    ELSE IF Len(s.df.rows) = 0 THEN {[s EXCEPT !.status = "error"]}
    ELSE IF null_count(s.df.rows, col) * 100 > NullRateThreshold * Len(s.df.rows)
    THEN {Appended(s, drop(s.df, col), Action(issue, "DROPPED_COLUMN", col, NoCount))}
    ELSE {s}

\* variant: an issue of any other type is recorded as skipped
RemediateIssue_OthersRecorded(s, issue) ==
    IF issue.type = "WHITESPACE" THEN FixWhitespace(s, issue)
    ELSE IF issue.type = "DUPLICATES" THEN FixDuplicates(s, issue)
    ELSE IF issue.type = "NEGATIVE_VALUES" THEN FixNegatives(s, issue)
    ELSE IF issue.type = "HIGH_NULL_RATE" THEN FixHighNullRate(s, issue)
    ELSE {Appended(s, s.df, [Action(issue, "SKIPPED", issue.column, NoCount)
                                EXCEPT !.status = "SKIPPED"])}

\* one iteration of `for issue in issues`
RemediateIssue(s, issue) ==
    IF issue.type = "WHITESPACE" THEN FixWhitespace(s, issue)
    ELSE IF issue.type = "DUPLICATES" THEN FixDuplicates(s, issue)
    ELSE IF issue.type = "NEGATIVE_VALUES" THEN FixNegatives(s, issue)
    ELSE IF issue.type = "HIGH_NULL_RATE" THEN FixHighNullRate(s, issue)
    ELSE {s}

RECURSIVE RemediateFrom(_, _, _)
RemediateFrom(s, issues, i) ==
    IF i > Len(issues) \/ s.status = "error" THEN {s}
    ELSE UNION {RemediateFrom(t, issues, i + 1) : t \in RemediateIssue(s, issues[i])}

\* the possible results of auto_remediate(df, issues)
auto_remediate(df, issues) ==
    RemediateFrom([df |-> df, actions |-> <<>>, status |-> "ok"], issues, 1)

\* The frames and issue lists of the model
\* a clean row, an untrimmed copy of it, a negative age, a null name and a
\* null age
RemRows ==
    { [name |-> Text(<<"a">>),      age |-> Int64(1)],
      [name |-> Text(<<" ", "a">>), age |-> Int64(1)],
      [name |-> Text(<<"a">>),      age |-> Int64(-1)],
      [name |-> NullText,           age |-> Int64(1)],
      [name |-> Text(<<"a">>),      age |-> NullInt] }
RemFrames == {[columns |-> <<"name", "age">>, rows |-> rows] :
                 rows \in SeqUpTo(RemRows, MaxRows)}

RemIssueKinds ==
    { [severity |-> "LOW",    type |-> "WHITESPACE",         column |-> "name"],
      [severity |-> "MEDIUM", type |-> "DUPLICATES",         column |-> "ALL"],
      [severity |-> "HIGH",   type |-> "NEGATIVE_VALUES",    column |-> "age"],
      [severity |-> "HIGH",   type |-> "HIGH_NULL_RATE",     column |-> "name"],
      [severity |-> "MEDIUM", type |-> "MODERATE_NULL_RATE", column |-> "age"] }

RemIdle ==
    /\ remInput = [columns |-> <<>>, rows |-> <<>>]
    /\ remIssues = <<>>
    /\ remResults = <<>>
    /\ remediation_log = <<>>

RemInit ==
    /\ remInput \in RemFrames
    /\ remIssues \in SeqUpTo(RemIssueKinds, MaxIssues)
    /\ remResults = <<>>
    /\ remediation_log = <<>>

\* The frame the next call receives: the input, then each call's own output
RemCurrent ==
    IF remResults = <<>> THEN remInput ELSE remResults[Len(remResults)].df

\* df_fixed, actions = remediation_agent.auto_remediate(df, issues)
AutoRemediate ==
    /\ Len(remResults) < MaxCalls
    /\ remResults # <<>> => remResults[Len(remResults)].status = "ok"
    /\ \E r \in auto_remediate(RemCurrent, remIssues) :
          /\ remResults' = Append(remResults, r)
          /\ remediation_log' = remediation_log \o r.actions
    /\ UNCHANGED <<remInput, remIssues>>

----------------------------------------------------------------------------
(* MedallionDuckDB.promote_to_silver and _apply_silver_transformations *)

MaxRawRows == 2    \* rows of the bronze table
MaxPromotes == 2   \* promote_to_silver calls on the same bronze table

EmptyFrame == [columns |-> <<>>, rows |-> <<>>]

ColumnSet(df) == {df.columns[i] : i \in DOMAIN df.columns}

\* 2. for col in df.columns: if df[col].dtype == pl.Utf8: strip_chars
RECURSIVE TrimTextColumns(_, _)
TrimTextColumns(df, i) ==
    IF i > Len(df.columns) THEN df
    ELSE TrimTextColumns(
            IF Dtype(df.columns[i]) = "Utf8" THEN TrimColumn(df, df.columns[i]) ELSE df,
            i + 1)

\* col.lower() on the column names of the model
lower(col) ==
    IF col = "Quantity" THEN "quantity"
    ELSE IF col = "Order_ID" THEN "order_id"
    ELSE col

\* 3. df.rename({col: col.lower() for col in df.columns})
LowercaseColumns(df) ==
    LET names == {lower(c) : c \in ColumnSet(df)} IN
    [columns |-> [i \in DOMAIN df.columns |-> lower(df.columns[i])],
     rows |-> [i \in DOMAIN df.rows |->
                 [c \in names |->
                    df.rows[i][CHOOSE o \in ColumnSet(df) : lower(o) = c]]]]

\* The date strings of the model, as day numbers; any other text does not
\* parse.
DateStrings == {<<"2024-01-01">>, <<"2024-01-02">>}
DayOf(chars) == IF chars = <<"2024-01-01">> THEN 1 ELSE 2
NullDate == [null |-> TRUE, v |-> 0]

\* str.strptime(pl.Date, "%Y-%m-%d", strict=False): null when it does not parse
strptime(cell) ==
    IF cell.null THEN NullDate
    ELSE IF cell.v \in DateStrings THEN [null |-> FALSE, v |-> DayOf(cell.v)]
    ELSE NullDate

\* 4. if 'order_date' in df.columns: parse it
ParseDates(df) ==
    IF InColumns(df, "order_date")
    THEN [df EXCEPT !.rows =
            [i \in DOMAIN df.rows |->
                [df.rows[i] EXCEPT !["order_date"] = strptime(@)]]]
    ELSE df

\* 5. for col in critical_cols: df.filter(pl.col(col).is_not_null())
critical_cols == <<"customer_id", "order_id", "order_date">>

RECURSIVE DropCriticalNulls(_, _)
DropCriticalNulls(df, i) ==
    IF i > Len(critical_cols) THEN df
    ELSE LET col == critical_cols[i]
             rows == df.rows
         IN  DropCriticalNulls(
                IF InColumns(df, col)
                THEN [df EXCEPT !.rows =
                        FilterRows(rows, {k \in DOMAIN rows : ~rows[k][col].null}, 1)]
                ELSE df,
                i + 1)

\* a comparison with a null is null, and filter drops the row
InRange(cell, lo, hi) == ~cell.null /\ cell.v >= lo /\ cell.v <= hi
Positive(cell) == ~cell.null /\ cell.v > 0

\* if col in df.columns: df = df.filter(pl.col(col) > 0)
FilterPositive(df, col) ==
    IF InColumns(df, col)
    THEN LET rows == df.rows IN
         [df EXCEPT !.rows =
            FilterRows(rows, {k \in DOMAIN rows : Positive(rows[k][col])}, 1)]
    ELSE df

\* if col in df.columns: df = df.filter((pl.col(col) >= lo) & (pl.col(col) <= hi))
FilterRange(df, col, lo, hi) ==
    IF InColumns(df, col)
    THEN LET rows == df.rows IN
         [df EXCEPT !.rows =
            FilterRows(rows, {k \in DOMAIN rows : InRange(rows[k][col], lo, hi)}, 1)]
    ELSE df

\* 6. quantity > 0, unit_price > 0, 18 <= customer_age <= 100,
\*    1 <= satisfaction_score <= 10
FilterInvalid(df) ==
    FilterRange(
      FilterRange(
        FilterPositive(FilterPositive(df, "quantity"), "unit_price"),
        "customer_age", 18, 100),
      "satisfaction_score", 1, 10)

\* variant: the critical nulls are dropped before the names are lower-cased
\* and the dates parsed
AfterUnique_NullsBeforeRename(df) ==
    FilterInvalid(ParseDates(LowercaseColumns(
        DropCriticalNulls(TrimTextColumns(df, 1), 1))))

\* steps 2 to 6, which are functions of the frame
AfterUnique(df) ==
    FilterInvalid(DropCriticalNulls(ParseDates(LowercaseColumns(
        TrimTextColumns(df, 1))), 1))

\* the possible results of _apply_silver_transformations(df): step 1 is
\* df.unique(), whose row order is not determined
apply_silver_transformations(df) ==
    {AfterUnique([df EXCEPT !.rows = out]) : out \in unique(df.rows)}

\* The bronze tables of the model
OrderIdCells == {Text(<<"O">>), Text(<<" ", "O">>), NullText}
OrderDateCells == {Text(<<"2024-01-01">>), Text(<<"2024-01-02">>), Text(<<"n/a">>)}
QuantityCells == {Int64(0), Int64(1), Int64(2)}
RawRows == [Order_ID : OrderIdCells, order_date : OrderDateCells,
            Quantity : QuantityCells]
RawFrames == {[columns |-> <<"Order_ID", "order_date", "Quantity">>, rows |-> rows] :
                 rows \in SeqUpTo(RawRows, MaxRawRows)}

StoreIdle ==
    /\ bronzeTable = <<>>
    /\ bronzeParquet = <<>>
    /\ loadHistory = <<>>
    /\ silverParquet = <<>>
    /\ silverTable = <<>>
    /\ promotePc = "idle"
    /\ promoteDf = EmptyFrame
    /\ promoteHistory = <<>>

\* the state after load_to_bronze(df, name, mode='replace') on a fresh database
StoreInit ==
    /\ bronzeTable \in {<<df>> : df \in RawFrames}
    /\ bronzeParquet = bronzeTable
    /\ loadHistory = <<[df |-> bronzeTable[1], mode |-> "replace", table |-> bronzeTable[1]]>>
    /\ silverParquet = <<>>
    /\ silverTable = <<>>
    /\ promotePc = "idle"
    /\ promoteDf = EmptyFrame
    /\ promoteHistory = <<>>

\* promote_to_silver, lines 127-142: SELECT * FROM bronze, transform,
\* df.write_parquet(parquet_path)
PromoteTransform ==
    /\ promotePc = "idle"
    /\ Len(promoteHistory) < MaxPromotes
    /\ bronzeTable # <<>>
    /\ \E df \in apply_silver_transformations(bronzeTable[1]) :
          /\ promoteDf' = df
          /\ silverParquet' = <<df>>
    /\ promotePc' = "written"
    /\ UNCHANGED <<bronzeTable, bronzeParquet, loadHistory, silverTable, promoteHistory>>

\* line 145: DROP TABLE IF EXISTS silver.<table>
PromoteDrop ==
    /\ promotePc = "written"
    /\ silverTable' = <<>>
    /\ promotePc' = "dropped"
    /\ UNCHANGED <<bronzeTable, bronzeParquet, loadHistory, silverParquet, promoteDf,
                   promoteHistory>>

\* lines 146-154: CREATE TABLE silver.<table> AS SELECT * FROM read_parquet;
\* return df
PromoteCreate ==
    /\ promotePc = "dropped"
    /\ silverTable' = silverParquet
    /\ promoteHistory' = Append(promoteHistory,
          [bronze |-> bronzeTable[1], returned |-> promoteDf,
           registered |-> silverParquet[1]])
    /\ promotePc' = "idle"
    /\ UNCHANGED <<bronzeTable, bronzeParquet, loadHistory, silverParquet, promoteDf>>

MaxLoads == 2   \* load_to_bronze calls on one table name

\* The datasets loaded in the model: up to two rows out of two raw rows
LoadRows ==
    { [Order_ID |-> Text(<<"O">>), order_date |-> Text(<<"2024-01-01">>), Quantity |-> Int64(1)],
      [Order_ID |-> Text(<<"O">>), order_date |-> Text(<<"2024-01-02">>), Quantity |-> Int64(2)] }
LoadFrames == {[columns |-> <<"Order_ID", "order_date", "Quantity">>, rows |-> rows] :
                  rows \in SeqUpTo(LoadRows, 2)}

LoadModes == {"append", "replace"}

\* A fresh database: no bronze table, no parquet file
LoadInit ==
    /\ bronzeTable = <<>>
    /\ bronzeParquet = <<>>
    /\ loadHistory = <<>>
    /\ silverParquet = <<>>
    /\ silverTable = <<>>
    /\ promotePc = "idle"
    /\ promoteDf = EmptyFrame
    /\ promoteHistory = <<>>

\* bronze.<table> after the statements of lines 95-101: DROP TABLE IF EXISTS
\* in replace mode, then CREATE TABLE IF NOT EXISTS ... AS SELECT * FROM
\* read_parquet, which does nothing when the table exists
RegisterBronze(table, df, mode) ==
    LET dropped == IF mode = "replace" THEN <<>> ELSE table
    IN  IF dropped = <<>> THEN <<df>> ELSE dropped

\* load_to_bronze(df, table_name, mode): write the parquet file, register
LoadToBronze ==
    /\ Len(loadHistory) < MaxLoads
    /\ \E df \in LoadFrames, mode \in LoadModes :
          /\ bronzeParquet' = <<df>>
          /\ bronzeTable' = RegisterBronze(bronzeTable, df, mode)
          /\ loadHistory' = Append(loadHistory,
                [df |-> df, mode |-> mode,
                 table |-> RegisterBronze(bronzeTable, df, mode)[1]])
    /\ UNCHANGED <<silverParquet, silverTable, promotePc, promoteDf, promoteHistory>>

----------------------------------------------------------------------------
(* Schema validation step: validate_schema(df, lazy=True) and the split of  *)
(* main.py                                                                  *)

MaxSchemaRows == 4   \* rows of the frame handed to validate_schema

\* The checks of the schema that the rows of the model can violate, in the
\* order pandera runs them: column checks, then the frame-wide check.
SchemaChecks ==
    << [schema_context |-> "Column", column |-> "Age", check |-> "greater_than_or_equal_to(18)"],
       [schema_context |-> "Column", column |-> "Location", check |-> "isin"],
       [schema_context |-> "DataFrameSchema", column |-> "-",
        check |-> "check_min_less_than_max"] >>

Locations == {"Urban", "Suburban", "Rural"}

\* whether a row passes a check
PassesCheck(c, row) ==
    IF c.column = "Age" THEN row.Age >= 18
    ELSE IF c.column = "Location" THEN row.Location \in Locations
    ELSE row.Min_Transaction_Value <= row.Max_Transaction_Value

SchemaRows ==
    [Age : {17, 30}, Location : {"Urban", "Mars"},
     Min_Transaction_Value : {1, 3}, Max_Transaction_Value : {2}]

\* the columns of the model's frame
FrameColumns == <<"Age", "Location", "Min_Transaction_Value", "Max_Transaction_Value">>

\* the failure cases of one check reported under one column name: one per
\* failing row, with the row's index
RECURSIVE CasesOfCheck(_, _, _, _)
CasesOfCheck(rows, c, col, i) ==
    IF i > Len(rows) THEN <<>>
    ELSE (IF PassesCheck(c, rows[i]) THEN <<>>
          ELSE <<[schema_context |-> c.schema_context, column |-> col,
                  check |-> c.check, index |-> i - 1]>>)
         \o CasesOfCheck(rows, c, col, i + 1)

\* the failure cases of a frame-wide check when the library reports every
\* cell of a failing row: column by column
RECURSIVE CasesPerCell(_, _, _)
CasesPerCell(rows, c, j) ==
    IF j > Len(FrameColumns) THEN <<>>
    ELSE CasesOfCheck(rows, c, FrameColumns[j], 1) \o CasesPerCell(rows, c, j + 1)

\* err.failure_cases of schema.validate(df, lazy=True): the failure cases of
\* all checks, concatenated; one row of the failure frame per (row, check).
\* cellwise: whether the frame-wide check reports a failing row once per
\* cell (the library's reshaping of a frame of failing rows) or once
RECURSIVE failure_cases(_, _, _)
failure_cases(rows, k, cellwise) ==
    IF k > Len(SchemaChecks) THEN <<>>
    ELSE (IF SchemaChecks[k].schema_context = "DataFrameSchema" /\ cellwise
          THEN CasesPerCell(rows, SchemaChecks[k], 1)
          ELSE CasesOfCheck(rows, SchemaChecks[k], SchemaChecks[k].column, 1))
         \o failure_cases(rows, k + 1, cellwise)

\* df.index of the loaded frame: 0 .. n - 1
FrameIndex(rows) == {i - 1 : i \in DOMAIN rows}

\* err.failure_cases.index: the failure frame's own row labels 0 .. k - 1
\* (the failing rows' indices are its "index" column)
FailureFrameIndex(cases) == {j - 1 : j \in DOMAIN cases}

\* valid_indexes = df.index.difference(err.failure_cases.index)
valid_indexes(rows, cases) == FrameIndex(rows) \ FailureFrameIndex(cases)

\* df.loc[valid_indexes]
Loc(rows, index) == FilterRows(rows, {i \in DOMAIN rows : i - 1 \in index}, 1)

SchemaIdle ==
    /\ svInput = <<>>
    /\ df_valid = <<>>
    /\ df_failed_schema = <<>>
    /\ svPc = "idle"

SchemaInit ==
    /\ svInput \in SeqUpTo(SchemaRows, MaxSchemaRows)
    /\ df_valid = <<>>
    /\ df_failed_schema = <<>>
    /\ svPc = "loaded"

\* main.py 20-39: the try block and its except pa.errors.SchemaErrors handler
ValidateSchemaStep ==
    /\ svPc = "loaded"
    /\ \E cellwise \in BOOLEAN :
       LET cases == failure_cases(svInput, 1, cellwise) IN
       IF cases = <<>>
       THEN /\ df_valid' = svInput
            /\ df_failed_schema' = <<>>
            /\ svPc' = "passed"
       ELSE /\ df_valid' = Loc(svInput, valid_indexes(svInput, cases))
            /\ df_failed_schema' = cases
            /\ svPc' = "split"
    /\ UNCHANGED svInput

----------------------------------------------------------------------------
(* BusinessRuleValidator.validate_all                                       *)
(*                                                                          *)
(* A mask is a sequence over {"T", "F", "N"}: polars booleans with null.    *)

MaxRuleRows == 3   \* rows of the frame handed to validate_all

\* order_date values: a past date, a future date, an unparsable string, null
PastDate == Text(<<"2024-01-01">>)
FutureDate == Text(<<"2999-01-01">>)
BadDate == Text(<<"n/a">>)

RuleRows ==
    [customer_id : {Text(<<"C">>), NullText},
     quantity : {Int64(1), Int64(0), NullInt},
     order_date : {PastDate, FutureDate, BadDate, NullText}]

\* Series.is_not_null(): never null itself
IsNotNullMask(rows, col) ==
    [i \in DOMAIN rows |-> IF rows[i][col].null THEN "F" ELSE "T"]

\* df[col] > 0: null where the value is null
PositiveMask(rows, col) ==
    [i \in DOMAIN rows |->
        IF rows[i][col].null THEN "N"
        ELSE IF rows[i][col].v > 0 THEN "T" ELSE "F"]

\* str.strptime(pl.Date, "%Y-%m-%d", strict=False) and <= today: the date
\* strings of the model that parse are PastDate and FutureDate
DateMask(rows, col) ==
    [i \in DOMAIN rows |->
        IF rows[i][col].null \/ rows[i][col] = BadDate THEN "N"
        ELSE IF rows[i][col] = PastDate THEN "T" ELSE "F"]

\* ~col_mask
NotMask(mask) ==
    [i \in DOMAIN mask |->
        IF mask[i] = "T" THEN "F" ELSE IF mask[i] = "F" THEN "T" ELSE "N"]

\* valid_mask & col_mask (Kleene and)
AndMask(a, b) ==
    [i \in DOMAIN a |->
        IF a[i] = "F" \/ b[i] = "F" THEN "F"
        ELSE IF a[i] = "T" /\ b[i] = "T" THEN "T" ELSE "N"]

\* The rules in the order validate_all applies them (the columns of the
\* model's frame among critical_cols and positive_cols, then the date rule)
Rules ==
    << [rule |-> "NOT_NULL_customer_id", column |-> "customer_id", kind |-> "not_null"],
       [rule |-> "NOT_NULL_order_date",  column |-> "order_date",  kind |-> "not_null"],
       [rule |-> "POSITIVE_quantity",    column |-> "quantity",    kind |-> "positive"],
       [rule |-> "VALID_DATE_RANGE",     column |-> "order_date",  kind |-> "date"] >>

col_mask(rows, r) ==
    IF r.kind = "not_null" THEN IsNotNullMask(rows, r.column)
    ELSE IF r.kind = "positive" THEN PositiveMask(rows, r.column)
    ELSE DateMask(rows, r.column)

\* failed_idx = (~col_mask).to_list()
failed_idx(rows, r) == NotMask(col_mask(rows, r))

\* any(failed_idx): None is falsy
AnyTrue(mask) == \E i \in DOMAIN mask : mask[i] = "T"

\* sum(failed_idx) raises TypeError when the list holds a None
SumRaises(mask) == \E i \in DOMAIN mask : mask[i] = "N"
SumTrue(mask) == Cardinality({i \in DOMAIN mask : mask[i] = "T"})

\* one rule of validate_all: the failure record, then the mask
RuleStep(st, rows, r) ==
    LET failed == failed_idx(rows, r) IN
    IF AnyTrue(failed) /\ SumRaises(failed)
    THEN [st EXCEPT !.raised = TRUE]
    ELSE [st EXCEPT
            !.failed_records =
                IF AnyTrue(failed)
                THEN Append(@, [rule |-> r.rule, column |-> r.column,
                                count |-> SumTrue(failed)])
                ELSE @,
            !.valid_mask = AndMask(@, col_mask(rows, r))]

RECURSIVE ApplyRules(_, _, _)
ApplyRules(st, rows, k) ==
    IF k > Len(Rules) \/ st.raised THEN st
    ELSE ApplyRules(RuleStep(st, rows, Rules[k]), rows, k + 1)

\* validate_all(df): the final loop state; valid_df = df.filter(valid_mask)
validate_all(rows) ==
    LET st == ApplyRules([failed_records |-> <<>>,
                          valid_mask |-> [i \in DOMAIN rows |-> "T"],
                          raised |-> FALSE], rows, 1)
    IN  [raised |-> st.raised,
         valid_df |-> IF st.raised THEN <<>>
                      ELSE FilterRows(rows, {i \in DOMAIN rows : st.valid_mask[i] = "T"}, 1),
         failed_records |-> IF st.raised THEN <<>> ELSE st.failed_records]

RulesIdle ==
    /\ brInput = <<>>
    /\ valid_df = <<>>
    /\ failed_records = <<>>
    /\ brPc = "idle"

RulesInit ==
    /\ brInput \in SeqUpTo(RuleRows, MaxRuleRows)
    /\ valid_df = <<>>
    /\ failed_records = <<>>
    /\ brPc = "ready"

\* valid_df, failed = validator.validate_all(df)
ValidateAll ==
    /\ brPc = "ready"
    /\ LET out == validate_all(brInput) IN
       /\ valid_df' = out.valid_df
       /\ failed_records' = out.failed_records
       /\ brPc' = IF out.raised THEN "raised" ELSE "returned"
    /\ UNCHANGED brInput

----------------------------------------------------------------------------
(* agentic_etl_pipeline: the flow and its tasks                             *)

\* A variant of the flow body that promotes before it remediates
FlowOrder_PromoteFirst ==
    << "load_config", "extract_raw_data", "load_to_bronze", "profile_data",
       "calculate_quality_score", "promote_to_silver", "auto_remediate",
       "create_gold_aggregations", "send_quality_alert" >>

\* The tasks in the order the flow body calls them. Each call is a direct
\* call of the task (no .submit()), so the flow waits for its final state.
FlowOrder ==
    << "load_config", "extract_raw_data", "load_to_bronze", "profile_data",
       "calculate_quality_score", "auto_remediate", "promote_to_silver",
       "create_gold_aggregations", "send_quality_alert" >>

Tasks == {FlowOrder[i] : i \in DOMAIN FlowOrder}

\* position of a task in the flow body
CallIndex(t) == CHOOSE i \in DOMAIN FlowOrder : FlowOrder[i] = t

LoadConfigRetries == 2
ExtractRetries == 3
ExtractRetryDelay == 30

\* A variant of the decorators in which the remediation task is retried once
retries_RemediationRetried(t) ==
    IF t = "load_config" THEN LoadConfigRetries
    ELSE IF t = "extract_raw_data" THEN ExtractRetries
    ELSE IF t = "auto_remediate" THEN 1
    ELSE 0

\* retries= of each @task decorator (the default is no retry)
retries(t) ==
    IF t = "load_config" THEN LoadConfigRetries
    ELSE IF t = "extract_raw_data" THEN ExtractRetries
    ELSE 0

\* retry_delay_seconds= of each @task decorator (the default is no delay)
retry_delay_seconds(t) == IF t = "extract_raw_data" THEN ExtractRetryDelay ELSE 0

\* The aggregates in the order create_gold_aggregations builds them, by the
\* table name each one is stored and reported under
AggregateOrder ==
    << "daily_sales", "customer_ltv", "product_performance", "regional_analytics" >>

Aggregates == {AggregateOrder[i] : i \in DOMAIN AggregateOrder}

AggregateIndex(a) == CHOOSE i \in DOMAIN AggregateOrder : AggregateOrder[i] = a

\* how far create_gold_aggregate got: the query, the parquet file, the table
AggregateStages == {"query_failed", "write_failed", "register_failed", "ok"}

\* What a configuration file can be: a YAML mapping with the expected keys,
\* no file, text yaml.safe_load rejects, an empty file (safe_load gives
\* None), or a mapping without the expected keys
ConfigKinds == {"valid", "absent", "unparsable", "empty", "no_keys"}

\* load_config(config_path): FileNotFoundError is caught and answered with
\* the defaults; anything else safe_load returns is returned as it is
load_config(kind) ==
    IF kind = "valid" THEN "file"
    ELSE IF kind = "absent" THEN "defaults"
    ELSE IF kind = "empty" THEN "None"
    ELSE "no_keys"

\* MedallionDuckDB(db_path) and the first use of self.config['medallion']:
\* the error a task that opens the database raises, "none" if it does not.
\* _load_config catches FileNotFoundError only; _initialize_database calls
\* self.config.get, and the writers index self.config['medallion']
MedallionError(kind) ==
    IF kind = "unparsable" THEN "YAMLError"
    ELSE IF kind = "empty" THEN "AttributeError"
    ELSE IF kind = "no_keys" THEN "KeyError"
    ELSE "none"

DatabaseTasks == {"load_to_bronze", "promote_to_silver", "create_gold_aggregations"}

\* the error the configuration makes task t raise, "none" if it makes none
ConfigErrorOf(t) ==
    IF t = "load_config"
    THEN (IF pipelineFile = "unparsable" THEN "YAMLError" ELSE "none")
    ELSE IF t = "extract_raw_data"
    THEN (IF config = "no_keys" THEN "KeyError" ELSE "none")
    ELSE IF t \in DatabaseTasks THEN MedallionError(medallionFile)
    ELSE "none"

\* the exception of a failure of task t: the one its configuration causes,
\* or one from its own work (I/O, source data, database)
ErrorOf(t) == IF ConfigErrorOf(t) # "none" THEN ConfigErrorOf(t) ELSE "TaskError"

FlowIdle ==
    /\ taskState = [t \in Tasks |-> "pending"]
    /\ attempts = [t \in Tasks |-> 0]
    /\ retryDelay = [t \in Tasks |-> 0]
    /\ flowState = "idle"
    /\ goldOutcome = [a \in Aggregates |-> "pending"]
    /\ goldResults = {}
    /\ goldParquet = {}
    /\ goldTables = {}
    /\ summary = <<>>
    /\ pipelineFile = "valid"
    /\ medallionFile = "valid"
    /\ config = "unset"
    /\ lastError = "none"

\* The flow is entered; the gold schema holds what an earlier run left
FlowInit ==
    /\ taskState = [t \in Tasks |-> "pending"]
    /\ attempts = [t \in Tasks |-> 0]
    /\ retryDelay = [t \in Tasks |-> 0]
    /\ flowState = "running"
    /\ goldOutcome = [a \in Aggregates |-> "pending"]
    /\ goldResults = {}
    /\ goldParquet \in {{}, Aggregates}
    /\ goldTables = goldParquet
    /\ summary = <<>>
    /\ pipelineFile \in ConfigKinds
    /\ medallionFile \in ConfigKinds
    /\ config = "unset"
    /\ lastError = "none"

\* The flow body reaches the call of task t: every call before it returned
StartTask(t) ==
    /\ flowState = "running"
    /\ taskState[t] = "pending"
    /\ \A u \in Tasks : CallIndex(u) < CallIndex(t) => taskState[u] = "completed"
    /\ config # "None"
    /\ taskState' = [taskState EXCEPT ![t] = "running"]
    /\ attempts' = [attempts EXCEPT ![t] = 1]
    /\ UNCHANGED <<retryDelay, flowState, goldOutcome, goldResults, goldParquet,
                   goldTables, summary, pipelineFile, medallionFile, config,
                   lastError>>

\* load_config returned None: config.get('pipeline', {}) in the flow body
\* raises AttributeError, which the flow's handler logs and re-raises
FlowBodyFails ==
    /\ flowState = "running"
    /\ taskState["load_config"] = "completed"
    /\ config = "None"
    /\ flowState' = "failed"
    /\ lastError' = "AttributeError"
    /\ UNCHANGED <<taskState, attempts, retryDelay, goldOutcome, goldResults,
                   goldParquet, goldTables, summary, pipelineFile, medallionFile,
                   config>>

\* The body of create_gold_aggregations has run through its four blocks
GoldBlocksDone == \A a \in Aggregates : goldOutcome[a] # "pending"

\* The task function returns
TaskCompletes(t) ==
    /\ taskState[t] = "running"
    /\ t = "create_gold_aggregations" => GoldBlocksDone
    /\ ConfigErrorOf(t) = "none"
    /\ taskState' = [taskState EXCEPT ![t] = "completed"]
    /\ config' = IF t = "load_config" THEN load_config(pipelineFile) ELSE config
    /\ UNCHANGED <<attempts, retryDelay, flowState, goldOutcome, goldResults,
                   goldParquet, goldTables, summary, pipelineFile, medallionFile,
                   lastError>>

\* A variant in which the flow swallows the task's failure and goes on
TaskFails_FlowContinues(t) ==
    /\ taskState[t] = "running"
    /\ t = "create_gold_aggregations" => \A a \in Aggregates : goldOutcome[a] = "pending"
    /\ IF attempts[t] <= retries(t)
       THEN /\ taskState' = [taskState EXCEPT ![t] = "awaiting_retry"]
            /\ retryDelay' = [retryDelay EXCEPT ![t] = retry_delay_seconds(t)]
       ELSE /\ taskState' = [taskState EXCEPT ![t] = "failed"]
            /\ UNCHANGED retryDelay
    /\ UNCHANGED <<flowState, attempts, goldOutcome, goldResults, goldParquet,
                   goldTables, summary, pipelineFile, medallionFile, config,
                   lastError>>

\* The task function raises. With retries left the task waits for its
\* re-attempt; otherwise the task fails, the call raises in the flow body,
\* and the flow's handler logs and re-raises: the run has failed.
\* create_gold_aggregations raises only outside its try blocks, that is in
\* the MedallionDuckDB constructor before the first block.
TaskFails(t) ==
    /\ taskState[t] = "running"
    /\ t = "create_gold_aggregations" => \A a \in Aggregates : goldOutcome[a] = "pending"
    /\ IF attempts[t] <= retries(t)
       THEN /\ taskState' = [taskState EXCEPT ![t] = "awaiting_retry"]
            /\ retryDelay' = [retryDelay EXCEPT ![t] = retry_delay_seconds(t)]
            /\ UNCHANGED <<flowState, lastError>>
       ELSE /\ taskState' = [taskState EXCEPT ![t] = "failed"]
            /\ flowState' = "failed"
            /\ lastError' = ErrorOf(t)
            /\ UNCHANGED retryDelay
    /\ UNCHANGED <<attempts, goldOutcome, goldResults, goldParquet, goldTables,
                   summary, pipelineFile, medallionFile, config>>

\* The retry delay has passed and the task function is called again
RetryTask(t) ==
    /\ taskState[t] = "awaiting_retry"
    /\ taskState' = [taskState EXCEPT ![t] = "running"]
    /\ attempts' = [attempts EXCEPT ![t] = @ + 1]
    /\ retryDelay' = [retryDelay EXCEPT ![t] = 0]
    /\ UNCHANGED <<flowState, goldOutcome, goldResults, goldParquet, goldTables,
                   summary, pipelineFile, medallionFile, config, lastError>>

\* what db.create_gold_aggregate(query, a) leaves behind when it stops at
\* stage: the parquet file is written before the table is dropped and created
ParquetAfter(a, stage) ==
    IF stage \in {"register_failed", "ok"} THEN goldParquet \cup {a} ELSE goldParquet
TablesAfter(a, stage) ==
    IF stage = "ok" THEN goldTables \cup {a}
    ELSE IF stage = "register_failed" THEN goldTables \ {a}
    ELSE goldTables

\* A variant of a block without its try/except: the failure leaves the task
GoldAggregate_Unguarded(a, stage) ==
    /\ taskState["create_gold_aggregations"] = "running"
    /\ goldOutcome[a] = "pending"
    /\ \A b \in Aggregates : AggregateIndex(b) < AggregateIndex(a) => goldOutcome[b] # "pending"
    /\ goldParquet' = ParquetAfter(a, stage)
    /\ goldTables' = TablesAfter(a, stage)
    /\ goldOutcome' = [goldOutcome EXCEPT ![a] = IF stage = "ok" THEN "ok" ELSE "failed"]
    /\ goldResults' = IF stage = "ok" THEN goldResults \cup {a} ELSE goldResults
    /\ IF stage = "ok"
       THEN UNCHANGED <<taskState, flowState>>
       ELSE /\ taskState' = [taskState EXCEPT !["create_gold_aggregations"] = "failed"]
            /\ flowState' = "failed"
    /\ UNCHANGED <<attempts, retryDelay, summary, pipelineFile, medallionFile,
                   config, lastError>>

\* A variant in which the four blocks are separate units that run in any order
GoldAggregate_AnyOrder(a, stage) ==
    /\ taskState["create_gold_aggregations"] = "running"
    /\ goldOutcome[a] = "pending"
    /\ goldParquet' = ParquetAfter(a, stage)
    /\ goldTables' = TablesAfter(a, stage)
    /\ goldOutcome' = [goldOutcome EXCEPT ![a] = IF stage = "ok" THEN "ok" ELSE "failed"]
    /\ goldResults' = IF stage = "ok" THEN goldResults \cup {a} ELSE goldResults
    /\ UNCHANGED <<taskState, flowState, attempts, retryDelay, summary,
                   pipelineFile, medallionFile, config, lastError>>

\* One block of create_gold_aggregations: try create_gold_aggregate and
\* record the row count under the table's name; on any exception log it
GoldAggregate(a, stage) ==
    /\ taskState["create_gold_aggregations"] = "running"
    /\ goldOutcome[a] = "pending"
    /\ \A b \in Aggregates : AggregateIndex(b) < AggregateIndex(a) => goldOutcome[b] # "pending"
    /\ goldParquet' = ParquetAfter(a, stage)
    /\ goldTables' = TablesAfter(a, stage)
    /\ goldOutcome' = [goldOutcome EXCEPT ![a] = IF stage = "ok" THEN "ok" ELSE "failed"]
    /\ goldResults' = IF stage = "ok" THEN goldResults \cup {a} ELSE goldResults
    /\ UNCHANGED <<taskState, flowState, attempts, retryDelay, summary,
                   pipelineFile, medallionFile, config, lastError>>

\* The flow body builds the summary after the last task and returns it
FlowReturns ==
    /\ flowState = "running"
    /\ \A t \in Tasks : taskState[t] = "completed"
    /\ summary' = <<[status |-> "SUCCESS", gold |-> goldResults,
                     reports |-> {"bronze", "silver", "gold", "quality_score",
                                  "issues_found", "remediation_actions"}]>>
    /\ flowState' = "completed"
    /\ UNCHANGED <<taskState, attempts, retryDelay, goldOutcome, goldResults,
                   goldParquet, goldTables, pipelineFile, medallionFile, config,
                   lastError>>

----------------------------------------------------------------------------
(* DataProfilerAgent: profile_dataset                                       *)

MaxProfileRows == 10

\* what the non-null values of a profiled frame look like
ProfVariants == {"plain", "distinct", "negative", "padded"}

\* a frame of n rows over name (Utf8) and age (Int64) whose first k names
\* and last j ages are null
ProfileFrame(n, k, j, variant) ==
    [columns |-> <<"name", "age">>,
     rows |-> [i \in 1..n |->
        [name |-> IF i <= k THEN NullText
                  ELSE IF variant = "padded" /\ i = k + 1 THEN Text(<<" ", "a">>)
                  ELSE Text(<<"a">>),
         age |-> IF i > n - j THEN NullInt
                 ELSE IF variant = "distinct" THEN Int64(i)
                 ELSE IF variant = "negative" /\ i = 1 THEN Int64(-1)
                 ELSE Int64(1)]]]

ProfFrames ==
    UNION {{ProfileFrame(n, k, j, v) : k \in 0..n, j \in 0..n, v \in ProfVariants} :
             n \in 0..MaxProfileRows}

\* col_data.n_unique(): null counts as one value
n_unique(rows, col) == Cardinality({rows[i][col] : i \in DOMAIN rows})

\* count / len(df) * 100 > threshold, and < threshold.  The quotient is a
\* float; for the counts and lengths of a frame the comparison with 5, 10
\* and 50 agrees with the exact one.
PctAbove(count, n, threshold) == count * 100 > threshold * n
PctBelow(count, n, threshold) == count * 100 < threshold * n

NonNullCount(rows, col) == Len(rows) - null_count(rows, col)

\* the numeric block of _profile_column is one try: with no value min() is
\* None and float(None) raises, so no statistic is recorded; with one value
\* that depends on whether std() is None (stdOfOne says it is a number)
HasNumericStats(rows, col, stdOfOne) ==
    /\ Dtype(col) = "Int64"
    /\ \/ NonNullCount(rows, col) >= 2
       \/ NonNullCount(rows, col) = 1 /\ stdOfOne

\* the string block likewise: with no value the minimal length is None
HasTextStats(rows, col) == Dtype(col) = "Utf8" /\ NonNullCount(rows, col) >= 1

\* (col_data < 0).sum()
negative_count(rows, col) ==
    Cardinality({i \in DOMAIN rows : ~rows[i][col].null /\ rows[i][col].v < 0})

\* col_data.str.strip_chars().ne(col_data).sum()
whitespace_issues(rows, col) ==
    Cardinality({i \in DOMAIN rows :
                    ~rows[i][col].null /\ strip_chars(rows[i][col]) # rows[i][col]})

\* any(keyword in col.lower() for keyword in ['price', 'amount', 'quantity',
\* 'age', 'count']) on the column names of the model
PresumedPositive(col) == col \in {"age", "Quantity", "quantity"}

Issue(severity, type, col) == [severity |-> severity, type |-> type, column |-> col]

\* variant: the second null-rate test is an if of its own
NullRateIssues_Independent(rows, col) ==
    (IF PctAbove(null_count(rows, col), Len(rows), 50)
     THEN <<Issue("HIGH", "HIGH_NULL_RATE", col)>> ELSE <<>>)
    \o (IF PctAbove(null_count(rows, col), Len(rows), 10)
        THEN <<Issue("MEDIUM", "MODERATE_NULL_RATE", col)>> ELSE <<>>)

\* if profile['null_percentage'] > 50: ... elif profile['null_percentage'] > 10: ...
NullRateIssues(rows, col) ==
    IF PctAbove(null_count(rows, col), Len(rows), 50)
    THEN <<Issue("HIGH", "HIGH_NULL_RATE", col)>>
    ELSE IF PctAbove(null_count(rows, col), Len(rows), 10)
    THEN <<Issue("MEDIUM", "MODERATE_NULL_RATE", col)>>
    ELSE <<>>

\* _detect_column_issues(df, col, profile)
detect_column_issues(rows, col, stdOfOne) ==
    NullRateIssues(rows, col)
    \o (IF PctBelow(n_unique(rows, col), Len(rows), 5) /\ n_unique(rows, col) > 1
        THEN <<Issue("INFO", "LOW_CARDINALITY", col)>> ELSE <<>>)
    \o (IF /\ HasNumericStats(rows, col, stdOfOne)
           /\ negative_count(rows, col) > 0
           /\ PresumedPositive(col)
        THEN <<Issue("HIGH", "NEGATIVE_VALUES", col)>> ELSE <<>>)
    \o (IF HasTextStats(rows, col) /\ whitespace_issues(rows, col) > 0
        THEN <<Issue("LOW", "WHITESPACE", col)>> ELSE <<>>)

\* for col in df.columns: if df[col].null_count() == len(df): ...
RECURSIVE EmptyColumnIssues(_, _)
EmptyColumnIssues(df, i) ==
    IF i > Len(df.columns) THEN <<>>
    ELSE (IF null_count(df.rows, df.columns[i]) = Len(df.rows)
          THEN <<Issue("HIGH", "EMPTY_COLUMN", df.columns[i])>> ELSE <<>>)
         \o EmptyColumnIssues(df, i + 1)

\* variant: a column counts as empty as soon as it holds a null
RECURSIVE EmptyColumnIssues_AnyNull(_, _)
EmptyColumnIssues_AnyNull(df, i) ==
    IF i > Len(df.columns) THEN <<>>
    ELSE (IF null_count(df.rows, df.columns[i]) > 0
          THEN <<Issue("HIGH", "EMPTY_COLUMN", df.columns[i])>> ELSE <<>>)
         \o EmptyColumnIssues_AnyNull(df, i + 1)

\* variant of the dataset checks with that test for empty columns
detect_dataset_issues_AnyNull(df) ==
    (IF Len(df.rows) - Cardinality(RowSet(df.rows)) > 0
     THEN <<Issue("MEDIUM", "DUPLICATES", "ALL")>> ELSE <<>>)
    \o EmptyColumnIssues_AnyNull(df, 1)

\* _detect_dataset_issues(df): duplicate_count = len(df) - df.n_unique()
detect_dataset_issues(df) ==
    (IF Len(df.rows) - Cardinality(RowSet(df.rows)) > 0
     THEN <<Issue("MEDIUM", "DUPLICATES", "ALL")>> ELSE <<>>)
    \o EmptyColumnIssues(df, 1)

\* the loop over df.columns of profile_dataset
RECURSIVE ColumnIssues(_, _, _)
ColumnIssues(df, i, stdOfOne) ==
    IF i > Len(df.columns) THEN <<>>
    ELSE detect_column_issues(df.rows, df.columns[i], stdOfOne)
         \o ColumnIssues(df, i + 1, stdOfOne)

\* profile_dataset(df, dataset_name): on a frame without rows the first
\* _profile_column divides by len(df) and raises ZeroDivisionError
profile_dataset(df, stdOfOne) ==
    IF Len(df.rows) = 0 /\ Len(df.columns) > 0
    THEN [raised |-> TRUE, issues |-> <<>>]
    ELSE [raised |-> FALSE,
          issues |-> ColumnIssues(df, 1, stdOfOne) \o detect_dataset_issues(df)]

ProfIdle ==
    /\ profInput = EmptyFrame
    /\ issues_detected = <<>>
    /\ profPc = "idle"

ProfInit ==
    /\ profInput \in ProfFrames
    /\ issues_detected = <<>>
    /\ profPc = "ready"

\* profile = profiler.profile_dataset(df, name)
ProfileDataset ==
    /\ profPc = "ready"
    /\ \E stdOfOne \in BOOLEAN :
          LET out == profile_dataset(profInput, stdOfOne) IN
          /\ issues_detected' = out.issues
          /\ profPc' = IF out.raised THEN "raised" ELSE "returned"
    /\ UNCHANGED profInput

----------------------------------------------------------------------------
(* GoldAggregator                                                           *)

MaxGoldRows == 3

\* rows of a cleaned table: no null in order_id, customer_id or order_date,
\* order_date parsed to a day
CleanedRows ==
    [order_date : {Int64(1), Int64(2)},
     order_id : {Text(<<"O">>)},
     customer_id : {Text(<<"C1">>), Text(<<"C2">>)},
     total_amount : {Int64(100), Int64(200)},
     quantity : {Int64(1)},
     customer_segment : {Text(<<"Gold">>)},
     customer_age : {Int64(30)}]

\* df.group_by(col): the keys, and the rows of one group in their order
GroupKeys(rows, col) == {rows[i][col] : i \in DOMAIN rows}
Group(rows, col, key) == FilterRows(rows, {i \in DOMAIN rows : rows[i][col] = key}, 1)

\* variant: the number of distinct non-null values
count_Distinct(rows, col) ==
    Cardinality({rows[i][col] : i \in {k \in DOMAIN rows : ~rows[k][col].null}})

\* pl.count(col): the number of non-null values
count(rows, col) == Len(rows) - null_count(rows, col)

\* pl.sum(col): nulls are skipped
RECURSIVE sum(_, _)
sum(rows, col) ==
    IF rows = <<>> THEN 0
    ELSE (IF Head(rows)[col].null THEN 0 ELSE Head(rows)[col].v) + sum(Tail(rows), col)

\* pl.mean(col), as the fraction sum / count
mean(rows, col) == [num |-> sum(rows, col), den |-> count(rows, col)]

\* pl.min(col), pl.max(col) on a group with a non-null value
min(rows, col) ==
    CHOOSE v \in {rows[i][col].v : i \in {k \in DOMAIN rows : ~rows[k][col].null}} :
        \A i \in DOMAIN rows : rows[i][col].null \/ v <= rows[i][col].v
max(rows, col) ==
    CHOOSE v \in {rows[i][col].v : i \in {k \in DOMAIN rows : ~rows[k][col].null}} :
        \A i \in DOMAIN rows : rows[i][col].null \/ v >= rows[i][col].v

\* the row of the daily summary for one order date
DailyRow(rows, key) ==
    LET g == Group(rows, "order_date", key) IN
    [order_date |-> key,
     order_count |-> count(g, "order_id"),
     total_revenue |-> sum(g, "total_amount"),
     avg_order_value |-> mean(g, "total_amount"),
     unique_customers |-> n_unique(g, "customer_id"),
     total_items_sold |-> sum(g, "quantity")]

\* create_daily_sales_summary(df): one row per group, sorted by order_date
\* descending
create_daily_sales_summary(rows) ==
    LET S == {DailyRow(rows, key) : key \in GroupKeys(rows, "order_date")}
        n == Cardinality(S)
    IN  {out \in [1..n -> S] :
            /\ \A i, j \in 1..n : i # j => out[i] # out[j]
            /\ \A i, j \in 1..n : i < j => out[i].order_date.v >= out[j].order_date.v}

\* the row of the lifetime-value table for one customer
LtvRow(rows, key) ==
    LET g == Group(rows, "customer_id", key) IN
    [customer_id |-> key,
     total_orders |-> count(g, "order_id"),
     lifetime_value |-> sum(g, "total_amount"),
     avg_order_value |-> mean(g, "total_amount"),
     first_order_date |-> min(g, "order_date"),
     last_order_date |-> max(g, "order_date"),
     segment |-> g[1]["customer_segment"],
     age |-> g[1]["customer_age"]]

\* create_customer_ltv(df): one row per group, sorted by lifetime_value
\* descending; customers with equal values come in any order
create_customer_ltv(rows) ==
    LET S == {LtvRow(rows, key) : key \in GroupKeys(rows, "customer_id")}
        n == Cardinality(S)
    IN  {out \in [1..n -> S] :
            /\ \A i, j \in 1..n : i # j => out[i] # out[j]
            /\ \A i, j \in 1..n : i < j => out[i].lifetime_value >= out[j].lifetime_value}

AggIdle ==
    /\ aggInput = <<>>
    /\ daily_sales = <<>>
    /\ ltv = <<>>

AggInit ==
    /\ aggInput \in SeqUpTo(CleanedRows, MaxGoldRows)
    /\ daily_sales = <<>>
    /\ ltv = <<>>

\* daily_sales = aggregator.create_daily_sales_summary(df)
CreateDailySalesSummary ==
    /\ daily_sales = <<>>
    /\ \E out \in create_daily_sales_summary(aggInput) : daily_sales' = <<out>>
    /\ UNCHANGED <<aggInput, ltv>>

\* ltv = aggregator.create_customer_ltv(df)
CreateCustomerLtv ==
    /\ ltv = <<>>
    /\ \E out \in create_customer_ltv(aggInput) : ltv' = <<out>>
    /\ UNCHANGED <<aggInput, daily_sales>>

----------------------------------------------------------------------------
(* MedallionDuckDB.create_gold_aggregate                                    *)

MaxSilverRows == 2

\* the aggregates of the model, and the tables of the database
GoldNames == {"daily_sales", "customer_ltv"}
GoldTable(name) == IF name = "daily_sales" THEN "gold.daily_sales" ELSE "gold.customer_ltv"
TableNames == {"bronze.sales", "silver.sales"} \cup {GoldTable(name) : name \in GoldNames}

\* rows of silver.sales, and the rows it held when the aggregates were
\* built the last time
SilverRows == {r \in CleanedRows : r.total_amount = Int64(100)}
StaleRows ==
    << [order_date |-> Int64(9), order_id |-> Text(<<"O">>),
        customer_id |-> Text(<<"C9">>), total_amount |-> Int64(100),
        quantity |-> Int64(1), customer_segment |-> Text(<<"Gold">>),
        customer_age |-> Int64(30)] >>

\* SELECT order_date, COUNT(*), SUM(total_amount), AVG(total_amount),
\* COUNT(DISTINCT customer_id) ... GROUP BY order_date ORDER BY order_date DESC
DailySalesQueryRow(rows, key) ==
    LET g == Group(rows, "order_date", key) IN
    [order_date |-> key,
     order_count |-> Len(g),
     total_revenue |-> sum(g, "total_amount"),
     avg_order_value |-> mean(g, "total_amount"),
     unique_customers |-> n_unique(g, "customer_id")]

DailySalesQuery(rows) ==
    LET S == {DailySalesQueryRow(rows, key) : key \in GroupKeys(rows, "order_date")}
        n == Cardinality(S)
    IN  {out \in [1..n -> S] :
            /\ \A i, j \in 1..n : i # j => out[i] # out[j]
            /\ \A i, j \in 1..n : i < j => out[i].order_date.v >= out[j].order_date.v}

\* SELECT customer_id, COUNT(*), SUM(total_amount), AVG(total_amount),
\* MIN(order_date), MAX(order_date), MAX(customer_segment) ...
\* GROUP BY customer_id ORDER BY lifetime_value DESC
CustomerLtvQueryRow(rows, key) ==
    LET g == Group(rows, "customer_id", key) IN
    [customer_id |-> key,
     total_orders |-> Len(g),
     lifetime_value |-> sum(g, "total_amount"),
     avg_order_value |-> mean(g, "total_amount"),
     first_order_date |-> min(g, "order_date"),
     last_order_date |-> max(g, "order_date"),
     segment |-> g[1]["customer_segment"]]

CustomerLtvQuery(rows) ==
    LET S == {CustomerLtvQueryRow(rows, key) : key \in GroupKeys(rows, "customer_id")}
        n == Cardinality(S)
    IN  {out \in [1..n -> S] :
            /\ \A i, j \in 1..n : i # j => out[i] # out[j]
            /\ \A i, j \in 1..n : i < j => out[i].lifetime_value >= out[j].lifetime_value}

\* self.conn.execute(query): the possible results of the query of an
\* aggregate on the silver table
QueryResults(name, rows) ==
    IF name = "daily_sales" THEN DailySalesQuery(rows) ELSE CustomerLtvQuery(rows)

\* variant: the rows are inserted into the table that exists
RegisterGold_InsertInto(tables, name, result) ==
    [tables EXCEPT ![GoldTable(name)] =
        IF @ = <<>> THEN <<result>> ELSE <<@[1] \o result>>]

\* DROP TABLE IF EXISTS gold.<name>; CREATE TABLE gold.<name> AS SELECT *
\* FROM read_parquet(...)
RegisterGold(tables, name, result) ==
    [tables EXCEPT ![GoldTable(name)] = <<result>>]

\* create_gold_aggregate(query, name) stopping at stage: what it leaves in
\* the database and under the gold path
create_gold_aggregate(tables, files, name, result, stage) ==
    [tables |-> IF stage = "ok" THEN RegisterGold(tables, name, result)
                ELSE IF stage = "register_failed"
                THEN [tables EXCEPT ![GoldTable(name)] = <<>>]
                ELSE tables,
     files |-> IF stage \in {"register_failed", "ok"}
               THEN [files EXCEPT ![name] = <<result>>]
               ELSE files]

GoldStoreIdle ==
    /\ dbTables = [t \in TableNames |-> <<>>]
    /\ goldFiles = [n \in GoldNames |-> <<>>]
    /\ lastAggregate = <<>>

\* The database holds the bronze and silver table of a run; the gold schema
\* holds nothing or what an earlier run built from other silver rows
GoldStoreInit ==
    /\ \E rows \in SeqUpTo(SilverRows, MaxSilverRows) :
       \E old \in SUBSET GoldNames :
          /\ dbTables =
                [t \in TableNames |->
                    IF t \in {"bronze.sales", "silver.sales"} THEN <<rows>>
                    ELSE IF t = "gold.daily_sales" /\ "daily_sales" \in old
                    THEN <<CHOOSE out \in DailySalesQuery(StaleRows) : TRUE>>
                    ELSE IF t = "gold.customer_ltv" /\ "customer_ltv" \in old
                    THEN <<CHOOSE out \in CustomerLtvQuery(StaleRows) : TRUE>>
                    ELSE <<>>]
          /\ goldFiles = [n \in GoldNames |-> dbTables[GoldTable(n)]]
    /\ lastAggregate = <<>>

\* df = db.create_gold_aggregate(query, name)
CreateGoldAggregate ==
    \E name \in GoldNames, stage \in AggregateStages :
    \E result \in QueryResults(name, dbTables["silver.sales"][1]) :
        LET out == create_gold_aggregate(dbTables, goldFiles, name, result, stage) IN
        /\ dbTables' = out.tables
        /\ goldFiles' = out.files
        /\ lastAggregate' = <<[name |-> name, stage |-> stage, result |-> result,
                               before |-> dbTables]>>

----------------------------------------------------------------------------
(* agentic_etl_pipeline, steps 4 to 6: profile, remediate, promote          *)

MaxRunRows == 2

\* a clean row, an untrimmed copy of it, a row of another day, and a row
\* with a negative quantity and no order id
RunRows ==
    { [Quantity |-> Int64(1),  Order_ID |-> Text(<<"O">>),      order_date |-> Text(<<"2024-01-01">>)],
      [Quantity |-> Int64(1),  Order_ID |-> Text(<<" ", "O">>), order_date |-> Text(<<"2024-01-01">>)],
      [Quantity |-> Int64(1),  Order_ID |-> Text(<<"O">>),      order_date |-> Text(<<"2024-01-02">>)],
      [Quantity |-> Int64(-1), Order_ID |-> NullText,           order_date |-> Text(<<"2024-01-01">>)] }

RunFrames == {[columns |-> <<"Quantity", "Order_ID", "order_date">>, rows |-> rows] :
                 rows \in SeqUpTo(RunRows, MaxRunRows)}

\* the auto_remediate task: without the flag the frame comes back as it is
auto_remediate_task(df, issues, enabled) ==
    IF enabled THEN auto_remediate(df, issues)
    ELSE {[df |-> df, actions |-> <<>>, status |-> "ok"]}

\* promote_to_silver(bronze_table=name, silver_table=name) reads
\* bronze.<name>, which load_to_bronze filled with df_raw; df_remediated is
\* not handed to it
PromoteSource(raw, remediated) == raw

\* The records a run of steps 4 to 6 can leave: a task that raises ends the
\* run, and then the run registers no cleaned table
RunOutcomes(raw, enabled, stdOfOne) ==
    LET prof == profile_dataset(raw, stdOfOne) IN
    IF prof.raised
    THEN {[enabled |-> enabled, outcome |-> "failed", remediated |-> <<>>,
           registered |-> <<>>]}
    ELSE UNION {
           IF r.status # "ok"
           THEN {[enabled |-> enabled, outcome |-> "failed", remediated |-> <<>>,
                  registered |-> <<>>]}
           ELSE {[enabled |-> enabled, outcome |-> "completed",
                  remediated |-> <<r.df>>, registered |-> <<cleaned>>] :
                   cleaned \in apply_silver_transformations(PromoteSource(raw, r.df))}
           : r \in auto_remediate_task(raw, prof.issues, enabled)}

RunIdle ==
    /\ df_raw = EmptyFrame
    /\ firstRun = <<>>
    /\ lastRun = <<>>

RunInit ==
    /\ df_raw \in RunFrames
    /\ firstRun = <<>>
    /\ lastRun = <<>>

\* one run of the flow over df_raw, with or without auto-remediation
RunPipeline ==
    /\ \E enabled \in BOOLEAN, stdOfOne \in BOOLEAN :
       \E run \in RunOutcomes(df_raw, enabled, stdOfOne) :
          /\ lastRun' = <<run>>
          /\ firstRun' = IF firstRun = <<>> THEN <<run>> ELSE firstRun
    /\ UNCHANGED df_raw

----------------------------------------------------------------------------
(* Specification of the quality scorer *)

ScoreNext ==
    \/ CalculateQualityScore /\ UNCHANGED <<remVars, storeVars, schemaVars, rulesVars, flowVars, profVars, aggVars, goldVars, runVars>>
    \/ SendQualityAlert /\ UNCHANGED <<remVars, storeVars, schemaVars, rulesVars, flowVars, profVars, aggVars, goldVars, runVars>>

InitScore == ScoreInit /\ RemIdle /\ StoreIdle /\ SchemaIdle /\ RulesIdle /\ FlowIdle /\ ProfIdle /\ AggIdle /\ GoldStoreIdle /\ RunIdle

SpecScore == InitScore /\ [][ScoreNext]_vars

----------------------------------------------------------------------------
(* Specification of the remediation engine: auto_remediate is called on a  *)
(* frame and then again on its own output, with the same issue list.       *)

RemNext ==
    AutoRemediate /\ UNCHANGED <<scoreVars, storeVars, schemaVars, rulesVars, flowVars, profVars, aggVars, goldVars, runVars>>

InitRemediate == RemInit /\ ScoreIdle /\ StoreIdle /\ SchemaIdle /\ RulesIdle /\ FlowIdle /\ ProfIdle /\ AggIdle /\ GoldStoreIdle /\ RunIdle

SpecRemediate == InitRemediate /\ [][RemNext]_vars

----------------------------------------------------------------------------
(* Specification of the layer store: promote_to_silver is called           *)
(* repeatedly on a bronze table that does not change.                      *)

PromoteNext ==
    \/ PromoteTransform /\ UNCHANGED <<scoreVars, remVars, schemaVars, rulesVars, flowVars, profVars, aggVars, goldVars, runVars>>
    \/ PromoteDrop /\ UNCHANGED <<scoreVars, remVars, schemaVars, rulesVars, flowVars, profVars, aggVars, goldVars, runVars>>
    \/ PromoteCreate /\ UNCHANGED <<scoreVars, remVars, schemaVars, rulesVars, flowVars, profVars, aggVars, goldVars, runVars>>

InitPromote == StoreInit /\ ScoreIdle /\ RemIdle /\ SchemaIdle /\ RulesIdle /\ FlowIdle /\ ProfIdle /\ AggIdle /\ GoldStoreIdle /\ RunIdle

SpecPromote == InitPromote /\ [][PromoteNext]_vars

----------------------------------------------------------------------------
(* Specification of the bronze loader: load_to_bronze is called repeatedly *)
(* on one table name of a fresh database.                                   *)

LoadNext ==
    LoadToBronze /\ UNCHANGED <<scoreVars, remVars, schemaVars, rulesVars, flowVars, profVars, aggVars, goldVars, runVars>>

InitLoad == LoadInit /\ ScoreIdle /\ RemIdle /\ SchemaIdle /\ RulesIdle /\ FlowIdle /\ ProfIdle /\ AggIdle /\ GoldStoreIdle /\ RunIdle

SpecLoad == InitLoad /\ [][LoadNext]_vars

----------------------------------------------------------------------------
(* Specification of the schema validation step of the pipeline script      *)

SchemaNext ==
    ValidateSchemaStep
        /\ UNCHANGED <<scoreVars, remVars, storeVars, rulesVars, flowVars, profVars, aggVars, goldVars, runVars>>

InitSchema == SchemaInit /\ ScoreIdle /\ RemIdle /\ StoreIdle /\ RulesIdle /\ FlowIdle /\ ProfIdle /\ AggIdle /\ GoldStoreIdle /\ RunIdle

SpecSchema == InitSchema /\ [][SchemaNext]_vars

----------------------------------------------------------------------------
(* Specification of the business-rule validator                            *)

RulesNext ==
    ValidateAll /\ UNCHANGED <<scoreVars, remVars, storeVars, schemaVars, flowVars, profVars, aggVars, goldVars, runVars>>

InitRules == RulesInit /\ ScoreIdle /\ RemIdle /\ StoreIdle /\ SchemaIdle /\ FlowIdle /\ ProfIdle /\ AggIdle /\ GoldStoreIdle /\ RunIdle

SpecRules == InitRules /\ [][RulesNext]_vars

----------------------------------------------------------------------------
(* C1: for every profile, whatever the number and severity of its issues   *)
(* and the null percentages of its columns, the score that                 *)
(* calculate_quality_score returns lies in the closed range [0, 100].      *)
C1_ScoreInRange ==
    scorePc = "scored" => (quality_score >= 0 /\ quality_score <= 100)

\* a profile whose penalties exceed 100 has been scored (the clamp acted)
C1_Witness ==
    /\ scorePc = "scored"
    /\ calculate_quality_score_unclamped(profile) < 0
    /\ quality_score = 0

----------------------------------------------------------------------------
(* Remediation idempotence *)

SecondCallReturned ==
    /\ Len(remResults) >= 2
    /\ remResults[1].status = "ok"
    /\ remResults[2].status = "ok"

ActionsOfKind(actions, kind) == {k \in DOMAIN actions : actions[k].action = kind}

IssuesOfType(issues, type) == {k \in DOMAIN issues : issues[k].type = type}

\* same columns and the same rows with the same multiplicities, in any order
SameFrame(a, b) ==
    /\ a.columns = b.columns
    /\ Len(a.rows) = Len(b.rows)
    /\ \A r \in RowSet(a.rows) \cup RowSet(b.rows) :
          CountRow(a.rows, r) = CountRow(b.rows, r)

C3_DataIdempotent ==
    SecondCallReturned => SameFrame(remResults[1].df, remResults[2].df)

----------------------------------------------------------------------------
(* Replay-safety *)

(* C4: two promote_to_silver calls on the same, unchanged bronze table      *)
(* return identical frames (same columns, same rows, same row order), and   *)
(* the silver table registered by the second equals the one registered by   *)
(* the first.                                                               *)
C4_ReplaySafe ==
    \A i, j \in DOMAIN promoteHistory :
        promoteHistory[i].bronze = promoteHistory[j].bronze =>
            /\ promoteHistory[i].returned = promoteHistory[j].returned
            /\ promoteHistory[i].registered = promoteHistory[j].registered

(* C18: after every load_to_bronze call, in either mode and whether or not *)
(* the table existed, the registered bronze table holds the rows of the     *)
(* dataset just loaded, unmodified.                                         *)
C18_RawHoldsLoadedRows ==
    \A k \in DOMAIN loadHistory :
        \A i \in DOMAIN loadHistory[k].df.rows :
            CountRow(loadHistory[k].table.rows, loadHistory[k].df.rows[i])
                >= CountRow(loadHistory[k].df.rows, loadHistory[k].df.rows[i])

(* C11: once promote_to_silver has registered a version of the silver      *)
(* table, a reader finds at every later moment a complete table: the        *)
(* version registered last or the one being written, never a missing one.   *)
C11_AtomicVisibility ==
    promoteHistory # <<>> =>
        /\ silverTable # <<>>
        /\ \/ silverTable[1] = promoteHistory[Len(promoteHistory)].registered
           \/ silverTable = silverParquet

----------------------------------------------------------------------------
(* Specification of the flow                                                *)

FlowNext ==
    \/ \E t \in Tasks : StartTask(t) /\ UNCHANGED <<scoreVars, remVars, storeVars, schemaVars, rulesVars, profVars, aggVars, goldVars, runVars>>
    \/ \E t \in Tasks : TaskCompletes(t) /\ UNCHANGED <<scoreVars, remVars, storeVars, schemaVars, rulesVars, profVars, aggVars, goldVars, runVars>>
    \/ \E t \in Tasks : TaskFails(t) /\ UNCHANGED <<scoreVars, remVars, storeVars, schemaVars, rulesVars, profVars, aggVars, goldVars, runVars>>
    \/ \E t \in Tasks : RetryTask(t) /\ UNCHANGED <<scoreVars, remVars, storeVars, schemaVars, rulesVars, profVars, aggVars, goldVars, runVars>>
    \/ \E a \in Aggregates, stage \in AggregateStages :
          GoldAggregate(a, stage) /\ UNCHANGED <<scoreVars, remVars, storeVars, schemaVars, rulesVars, profVars, aggVars, goldVars, runVars>>
    \/ FlowBodyFails /\ UNCHANGED <<scoreVars, remVars, storeVars, schemaVars, rulesVars, profVars, aggVars, goldVars, runVars>>
    \/ FlowReturns /\ UNCHANGED <<scoreVars, remVars, storeVars, schemaVars, rulesVars, profVars, aggVars, goldVars, runVars>>

InitFlow == FlowInit /\ ScoreIdle /\ RemIdle /\ StoreIdle /\ SchemaIdle /\ RulesIdle /\ ProfIdle /\ AggIdle /\ GoldStoreIdle /\ RunIdle

SpecFlow == InitFlow /\ [][FlowNext]_vars

----------------------------------------------------------------------------
(* Specification of the profiler                                            *)

ProfNext ==
    ProfileDataset
        /\ UNCHANGED <<scoreVars, remVars, storeVars, schemaVars, rulesVars, flowVars, aggVars, goldVars, runVars>>

InitProfile == ProfInit /\ ScoreIdle /\ RemIdle /\ StoreIdle /\ SchemaIdle /\ RulesIdle /\ FlowIdle /\ AggIdle /\ GoldStoreIdle /\ RunIdle

SpecProfile == InitProfile /\ [][ProfNext]_vars

----------------------------------------------------------------------------
(* Specification of the aggregator                                          *)

AggNext ==
    \/ CreateDailySalesSummary /\ UNCHANGED <<scoreVars, remVars, storeVars, schemaVars, rulesVars, flowVars, profVars, goldVars, runVars>>
    \/ CreateCustomerLtv /\ UNCHANGED <<scoreVars, remVars, storeVars, schemaVars, rulesVars, flowVars, profVars, goldVars, runVars>>

InitAggregate == AggInit /\ ScoreIdle /\ RemIdle /\ StoreIdle /\ SchemaIdle /\ RulesIdle /\ FlowIdle /\ ProfIdle /\ GoldStoreIdle /\ RunIdle

SpecAggregate == InitAggregate /\ [][AggNext]_vars

----------------------------------------------------------------------------
(* Specification of the gold tables: create_gold_aggregate is called       *)
(* repeatedly on a database whose silver table does not change.            *)

GoldStoreNext ==
    CreateGoldAggregate
        /\ UNCHANGED <<scoreVars, remVars, storeVars, schemaVars, rulesVars, flowVars, profVars, aggVars, runVars>>

InitGoldStore == GoldStoreInit /\ ScoreIdle /\ RemIdle /\ StoreIdle /\ SchemaIdle /\ RulesIdle /\ FlowIdle /\ ProfIdle /\ AggIdle /\ RunIdle

SpecGoldStore == InitGoldStore /\ [][GoldStoreNext]_vars

----------------------------------------------------------------------------
(* Specification of repeated runs over the same raw data                    *)

RunNext ==
    RunPipeline
        /\ UNCHANGED <<scoreVars, remVars, storeVars, schemaVars, rulesVars, flowVars, profVars, aggVars, goldVars>>

InitRun == RunInit /\ ScoreIdle /\ RemIdle /\ StoreIdle /\ SchemaIdle /\ RulesIdle /\ FlowIdle /\ ProfIdle /\ AggIdle /\ GoldStoreIdle

SpecRun == InitRun /\ [][RunNext]_vars

----------------------------------------------------------------------------
(* Row conservation *)

(* C5: after lazy schema validation and the pipeline's split, the number of *)
(* rows that continue as valid plus the number of rows isolated as failed   *)
(* equals the number of input rows, even when one row violates several      *)
(* checks.                                                                   *)
C5_SchemaRowConservation ==
    svPc \in {"passed", "split"} =>
        Len(df_valid) + Len(df_failed_schema) = Len(svInput)

\* the rows that some failure record counts: row i failed a rule whose record
\* is in failed_records
ReportedFailedRows ==
    {i \in DOMAIN brInput :
        \E k \in DOMAIN Rules :
            /\ \E j \in DOMAIN failed_records : failed_records[j].rule = Rules[k].rule
            /\ failed_idx(brInput, Rules[k])[i] = "T"}

(* C6: after business-rule validation, the number of rows in the valid      *)
(* output plus the number of rows reported as failed (each failing row       *)
(* counted once, however many rules it fails) equals the number of input     *)
(* rows, also when a checked column holds nulls.                             *)
C6_RulesRowConservation ==
    brPc = "returned" =>
        Len(valid_df) + Cardinality(ReportedFailedRows) = Len(brInput)

\* the rows of the loaded frame that some failure case references
ReferencedRows ==
    {i \in DOMAIN svInput :
        \E j \in DOMAIN df_failed_schema : df_failed_schema[j].index = i - 1}

(* C17: after lazy schema validation the pipeline continues with exactly    *)
(* the rows that no failure case references, in their order: of four rows   *)
(* of which only the second violates a check, the second is isolated and    *)
(* the other three continue.                                                *)
C17_FailingRowsIsolated ==
    svPc \in {"passed", "split"} =>
        df_valid = FilterRows(svInput, DOMAIN svInput \ ReferencedRows, 1)

----------------------------------------------------------------------------
(* Orchestration *)

\* the dependencies the task graph declares, per task
DeclaredDeps(t) ==
    IF t = "extract_raw_data" THEN {"load_config"}
    ELSE IF t = "load_to_bronze" THEN {"extract_raw_data"}
    ELSE IF t = "profile_data" THEN {"load_to_bronze"}
    ELSE IF t = "calculate_quality_score" THEN {"profile_data"}
    ELSE IF t = "auto_remediate" THEN {"profile_data"}
    ELSE IF t = "promote_to_silver" THEN {"auto_remediate", "load_to_bronze"}
    ELSE IF t = "create_gold_aggregations" THEN {"promote_to_silver"}
    ELSE IF t = "send_quality_alert" THEN {"calculate_quality_score"}
    ELSE {}

(* C7: in every run, a task starts only when all of its declared            *)
(* dependencies have completed (remediate after profile, promote after      *)
(* remediate and the raw-tier load, alert after score), and every aggregate *)
(* is computed only after promote-to-cleaned has completed.                 *)
C7_DependenciesRespected ==
    [][ /\ \A t \in Tasks :
            (taskState[t] = "pending" /\ taskState'[t] = "running")
                => \A d \in DeclaredDeps(t) : taskState[d] = "completed"
        /\ \A a \in Aggregates :
            (goldOutcome[a] = "pending" /\ goldOutcome'[a] # "pending")
                => taskState["promote_to_silver"] = "completed" ]_vars

\* promote-to-cleaned has run and completed, and the first aggregate has
\* been computed
C7_Witness ==
    /\ taskState["promote_to_silver"] = "completed"
    /\ goldOutcome["daily_sales"] # "pending"

(* C8: extract is attempted at most 4 times (3 retries, each after a 30 s   *)
(* delay) and load-config at most 3 times (2 retries); either one fails,    *)
(* and the run with it, only after its last attempt; remediation and        *)
(* promotion are attempted once, and their failure fails the run at once.   *)
C8_RetryPolicy ==
    /\ attempts["extract_raw_data"] <= 4
    /\ attempts["load_config"] <= 3
    /\ taskState["extract_raw_data"] = "failed" => attempts["extract_raw_data"] = 4
    /\ taskState["load_config"] = "failed" => attempts["load_config"] = 3
    /\ taskState["extract_raw_data"] = "awaiting_retry"
          => retryDelay["extract_raw_data"] = 30 /\ flowState = "running"
    /\ taskState["load_config"] = "awaiting_retry" => flowState = "running"
    /\ flowState = "failed"
          => \A t \in Tasks : taskState[t] \notin {"running", "awaiting_retry"}
    /\ \A t \in {"auto_remediate", "promote_to_silver"} :
          /\ attempts[t] <= 1
          /\ taskState[t] # "awaiting_retry"
          /\ taskState[t] = "failed" => flowState = "failed"

\* load-config succeeded on its last attempt, extract on a re-attempt, and
\* the remediation task has failed
C8_Witness ==
    /\ attempts["load_config"] = 3
    /\ attempts["extract_raw_data"] = 2
    /\ taskState["auto_remediate"] = "failed"

(* C9 as stated: a task failure aborts only its dependents; when            *)
(* promote-to-cleaned fails the alert still completes and the summary       *)
(* reports the quality score, and when score fails promotion and the        *)
(* aggregates still complete.                                               *)
C9_IndependentBranchesComplete ==
    flowState \in {"completed", "failed"} =>
        /\ taskState["promote_to_silver"] = "failed"
              => /\ taskState["send_quality_alert"] = "completed"
                 /\ summary # <<>>
        /\ taskState["calculate_quality_score"] = "failed"
              => /\ taskState["promote_to_silver"] = "completed"
                 /\ taskState["create_gold_aggregations"] = "completed"

(* C9 amended: a task failure (after its retries) aborts the whole run: the *)
(* run is failed, no task called later in the flow is ever started, no      *)
(* summary is returned, and the tasks that completed before keep their      *)
(* state.                                                                    *)
C9_FailureAbortsRun ==
    \A t \in Tasks :
        taskState[t] = "failed" =>
            /\ flowState = "failed"
            /\ summary = <<>>
            /\ \A u \in Tasks :
                  /\ CallIndex(u) > CallIndex(t) => taskState[u] = "pending"
                  /\ CallIndex(u) < CallIndex(t) => taskState[u] = "completed"

\* promote-to-cleaned has failed after score completed
C9_Witness ==
    /\ taskState["promote_to_silver"] = "failed"
    /\ taskState["calculate_quality_score"] = "completed"

\* an aggregate block ends in failure in this step
AggregateFailsNow(a) == goldOutcome[a] = "pending" /\ goldOutcome'[a] = "failed"

(* C10: whichever aggregates fail, the failure of one leaves the task and   *)
(* the run going and the other aggregates' files, tables and results        *)
(* untouched; when the task is done all four were attempted, exactly the    *)
(* ones that succeeded are in the reported results, and each of those has   *)
(* its file and its table.                                                  *)
C10_AggregateFailureIsolated ==
    /\ [](taskState["create_gold_aggregations"] = "completed" =>
            /\ \A a \in Aggregates : goldOutcome[a] \in {"ok", "failed"}
            /\ goldResults = {a \in Aggregates : goldOutcome[a] = "ok"}
            /\ goldResults \subseteq goldTables \cap goldParquet)
    /\ [][\A a \in Aggregates :
            AggregateFailsNow(a) =>
                /\ taskState'["create_gold_aggregations"] = "running"
                /\ flowState' = "running"
                /\ goldResults' = goldResults
                /\ goldTables' \ {a} = goldTables \ {a}
                /\ goldParquet' \ {a} = goldParquet \ {a}]_vars

\* the first and third aggregates failed, the other two were reported, and
\* the run went on to return its summary
C10_Witness ==
    /\ flowState = "completed"
    /\ goldOutcome["daily_sales"] = "failed"
    /\ goldOutcome["product_performance"] = "failed"
    /\ goldResults = {"customer_ltv", "regional_analytics"}

\* aggregate a can be computed now
AggregateCanRun(a) ==
    ENABLED (GoldAggregate(a, "ok")
               /\ UNCHANGED <<scoreVars, remVars, storeVars, schemaVars, rulesVars, profVars, aggVars, goldVars, runVars>>)

(* C12 as stated: once promote-to-cleaned has completed and the aggregates  *)
(* have been started, every aggregate that has not run yet can run now,     *)
(* whatever the state of the other three: none waits for another.           *)
C12_AggregatesIndependent ==
    taskState["create_gold_aggregations"] = "running" =>
        \A a \in Aggregates : goldOutcome[a] = "pending" => AggregateCanRun(a)

(* C12 amended: the four aggregates are computed inside one task that       *)
(* starts after promote-to-cleaned has completed, one at a time in the      *)
(* fixed order daily_sales, customer_ltv, product_performance,              *)
(* regional_analytics: each is computed only after every earlier one has    *)
(* finished, successfully or not.                                           *)
C12_AggregatesSequential ==
    [][\A a \in Aggregates :
          (goldOutcome[a] = "pending" /\ goldOutcome'[a] # "pending") =>
              /\ taskState["promote_to_silver"] = "completed"
              /\ \A b \in Aggregates :
                    /\ AggregateIndex(b) < AggregateIndex(a) => goldOutcome[b] # "pending"
                    /\ AggregateIndex(b) > AggregateIndex(a) => goldOutcome'[b] = "pending"]_vars

\* the first two aggregates are done and the last two have not run
C12_Witness ==
    /\ goldOutcome["daily_sales"] # "pending"
    /\ goldOutcome["customer_ltv"] # "pending"
    /\ goldOutcome["product_performance"] = "pending"
    /\ goldOutcome["regional_analytics"] = "pending"

----------------------------------------------------------------------------
(* The remediation of one issue. A call whose issue list holds exactly one *)
(* issue shows what the engine does for that issue: call k receives         *)
(* CallInput(k), the dataset as remediated so far, and returns              *)
(* remResults[k].                                                           *)

CallInput(k) == IF k = 1 THEN remInput ELSE remResults[k - 1].df

\* the calls made with the single issue of the given type
CallsFor(type) ==
    {k \in DOMAIN remResults : Len(remIssues) = 1 /\ remIssues[1].type = type}

(* C13: for a HIGH_NULL_RATE issue naming column c the call returns         *)
(* normally; if more than 80% of c's values in the current dataset are null *)
(* the column is dropped and every row is kept, otherwise the dataset is    *)
(* unchanged and exactly one action, of status SKIPPED, is recorded.        *)
C13_HighNullRate ==
    \A k \in CallsFor("HIGH_NULL_RATE") :
        LET in == CallInput(k)
            out == remResults[k]
            c == remIssues[1].column
        IN  /\ out.status = "ok"
            /\ IF null_count(in.rows, c) * 100 > 80 * Len(in.rows)
               THEN /\ ~InColumns(out.df, c)
                    /\ Len(out.df.rows) = Len(in.rows)
               ELSE /\ out.df = in
                    /\ Len(out.actions) = 1
                    /\ out.actions[1].status = "SKIPPED"

\* the first occurrence of each distinct row, in the original order
FirstOccurrences(rows) ==
    FilterRows(rows, {i \in DOMAIN rows : \A j \in 1..(i - 1) : rows[j] # rows[i]}, 1)

(* C14: for a DUPLICATES issue the result holds exactly the first           *)
(* occurrence of each distinct row, the survivors in their original         *)
(* relative order, and the logged rows_removed is the input row count minus *)
(* the number of distinct rows.                                             *)
C14_DuplicatesKeepFirst ==
    \A k \in CallsFor("DUPLICATES") :
        LET in == CallInput(k)
            out == remResults[k]
        IN  /\ out.status = "ok"
            /\ out.df.columns = in.columns
            /\ out.df.rows = FirstOccurrences(in.rows)
            /\ Len(out.actions) = 1
            /\ out.actions[1].rows_removed
                  = Len(in.rows) - Cardinality(RowSet(in.rows))

\* the rows whose value in column c is negative (a null is not)
NegativeRows(rows, c) == {i \in DOMAIN rows : ~rows[i][c].null /\ rows[i][c].v < 0}

(* C15: for a NEGATIVE_VALUES issue naming column c the rows removed are    *)
(* exactly the rows whose value in c is negative: rows with a zero, a       *)
(* positive or a null value are kept, in order, and the logged rows_removed *)
(* is the number of negative values in c.                                   *)
C15_NegativesOnlyRemoved ==
    \A k \in CallsFor("NEGATIVE_VALUES") :
        LET in == CallInput(k)
            out == remResults[k]
            c == remIssues[1].column
        IN  /\ out.status = "ok"
            /\ out.df.columns = in.columns
            /\ out.df.rows = FilterRows(in.rows, DOMAIN in.rows \ NegativeRows(in.rows, c), 1)
            /\ Len(out.actions) = 1
            /\ out.actions[1].rows_removed = Cardinality(NegativeRows(in.rows, c))

----------------------------------------------------------------------------
(* Quality alert *)

(* C16: the alert is raised exactly when the quality score is strictly      *)
(* below 80: a score of 80 raises none; and the alert step leaves the       *)
(* score, the tier tables and the run outcome as they were.                 *)
C16_AlertBelowThreshold ==
    /\ [](scorePc = "alerted" =>
            /\ alertLog = "ALERT" <=> quality_score < 80
            /\ alertLog = "OK" <=> quality_score >= 80)
    /\ [][(scorePc = "scored" /\ scorePc' = "alerted") =>
            UNCHANGED <<quality_score, bronzeTable, silverParquet, silverTable,
                        goldParquet, goldTables, flowState, summary>>]_vars

\* a score of exactly 80 went through the alert step without an alert
C16_Witness ==
    /\ scorePc = "alerted"
    /\ quality_score = 80
    /\ alertLog = "OK"

----------------------------------------------------------------------------
(* Configuration errors *)

\* the exceptions a missing or invalid configuration file leads to
ConfigErrors == {"YAMLError", "AttributeError", "KeyError"}

(* C19: a missing or invalid configuration file (absent, unparsable, empty  *)
(* or lacking the expected keys) never fails the run: load_config answers   *)
(* it with the defaults, and no run ends with an error that comes from the  *)
(* configuration.                                                           *)
C19_ConfigErrorsNotFatal ==
    /\ (taskState["load_config"] = "completed" /\ pipelineFile # "valid")
          => config = "defaults"
    /\ flowState = "failed" => lastError \notin ConfigErrors

----------------------------------------------------------------------------
(* The score as a closed formula *)

\* the number of detected issues of a severity
IssuesOfSeverity(sev) ==
    Cardinality({i \in DOMAIN profile.issues_detected :
                    profile.issues_detected[i].severity = sev})

\* the number of profiled columns whose null percentage is above lo and at
\* most hi
ColumnsWithNullPct(lo, hi) ==
    Cardinality({i \in DOMAIN profile.columns :
                    /\ profile.columns[i].null_percentage > lo
                    /\ profile.columns[i].null_percentage <= hi})

PenaltySum ==
    10 * IssuesOfSeverity("HIGH") + 5 * IssuesOfSeverity("MEDIUM")
      + 2 * IssuesOfSeverity("LOW")
      + 5 * ColumnsWithNullPct(50, 100) + 2 * ColumnsWithNullPct(20, 50)

(* C20: the score is max(0, 100 - 10*HIGH - 5*MEDIUM - 2*LOW - 5*(columns   *)
(* with null% > 50) - 2*(columns with 20 < null% <= 50)); INFO issues and   *)
(* columns with null% <= 20 contribute nothing, and a column is penalised   *)
(* once.                                                                    *)
C20_ScoreFormula ==
    scorePc \in {"scored", "alerted"} =>
        quality_score = IF PenaltySum >= 100 THEN 0 ELSE 100 - PenaltySum

\* a profile with an INFO issue, a HIGH issue, a column at exactly 50% nulls
\* and one above it has been scored
C20_Witness ==
    /\ scorePc = "scored"
    /\ IssuesOfSeverity("INFO") > 0
    /\ IssuesOfSeverity("HIGH") > 0
    /\ ColumnsWithNullPct(20, 50) > 0
    /\ ColumnsWithNullPct(50, 100) > 0
    /\ \E i \in DOMAIN profile.columns : profile.columns[i].null_percentage = 50
    /\ quality_score > 0

----------------------------------------------------------------------------
(* The cleaned table *)

\* a text without leading or trailing whitespace
IsTrimmed(chars) ==
    chars = <<>> \/ (~IsSpace(chars[1]) /\ ~IsSpace(chars[Len(chars)]))

\* the conditions a row of the cleaned table has to meet, each for the
\* columns the table has
CleanRow(df, row) ==
    /\ \A c \in {"customer_id", "order_id", "order_date"} :
          InColumns(df, c) => ~row[c].null
    /\ \A c \in {"quantity", "unit_price"} :
          InColumns(df, c) => (~row[c].null /\ row[c].v > 0)
    /\ InColumns(df, "customer_age")
          => (~row["customer_age"].null /\ row["customer_age"].v >= 18
                /\ row["customer_age"].v <= 100)
    /\ InColumns(df, "satisfaction_score")
          => (~row["satisfaction_score"].null /\ row["satisfaction_score"].v >= 1
                /\ row["satisfaction_score"].v <= 10)
    /\ \A c \in ColumnSet(df) \ {"order_date"} :
          (Dtype(c) = "Utf8" /\ ~row[c].null) => IsTrimmed(row[c].v)

----------------------------------------------------------------------------
(* Exactness of the business rules *)

\* row does not meet the condition of rule r: the column is null (not_null),
\* the value is not a number above zero (positive), the value is not a date
\* up to today (date)
FailsRule(row, r) ==
    IF r.kind = "not_null" THEN row[r.column].null
    ELSE IF r.kind = "positive" THEN ~Positive(row[r.column])
    ELSE row[r.column] # PastDate

RowsFailing(rows, r) == {i \in DOMAIN rows : FailsRule(rows[i], r)}

(* C22: the valid output of validate_all is exactly the input rows that     *)
(* pass every rule, in their order; a rule that n > 0 rows fail has one     *)
(* failure record whose count is n (a row failing two rules is counted by   *)
(* both), and a rule that no row fails has no failure record.               *)
C22_RulesExact ==
    brPc = "returned" =>
        /\ valid_df = FilterRows(brInput,
              {i \in DOMAIN brInput :
                  \A k \in DOMAIN Rules : ~FailsRule(brInput[i], Rules[k])}, 1)
        /\ \A k \in DOMAIN Rules :
              LET n == Cardinality(RowsFailing(brInput, Rules[k]))
                  recs == {j \in DOMAIN failed_records :
                              failed_records[j].rule = Rules[k].rule}
              IN  IF n = 0 THEN recs = {}
                  ELSE /\ Cardinality(recs) = 1
                       /\ \A j \in recs : failed_records[j].count = n

----------------------------------------------------------------------------
(* Issues raised by the profiler *)

\* the number of issues of that severity and type raised for the column
IssueCount(severity, type, col) ==
    Cardinality({i \in DOMAIN issues_detected :
                    issues_detected[i] = Issue(severity, type, col)})

\* the number of issues of that type raised for the column, of any severity
IssueCountOfType(type, col) ==
    Cardinality({i \in DOMAIN issues_detected :
                    /\ issues_detected[i].type = type
                    /\ issues_detected[i].column = col})

(* C23: for every column of a profiled frame, a HIGH issue HIGH_NULL_RATE    *)
(* is raised exactly when more than half of its values are null, a MEDIUM   *)
(* issue MODERATE_NULL_RATE exactly when more than a tenth and at most half *)
(* are; each is raised once and never both, and at a tenth or less neither. *)
C23_NullRateIssues ==
    profPc = "returned" =>
        \A i \in DOMAIN profInput.columns :
            LET col == profInput.columns[i]
                nulls == null_count(profInput.rows, col)
                n == Len(profInput.rows)
                high == 2 * nulls > n
                moderate == 10 * nulls > n /\ 2 * nulls <= n
            IN  /\ IssueCount("HIGH", "HIGH_NULL_RATE", col) = (IF high THEN 1 ELSE 0)
                /\ IssueCountOfType("HIGH_NULL_RATE", col) = (IF high THEN 1 ELSE 0)
                /\ IssueCount("MEDIUM", "MODERATE_NULL_RATE", col)
                      = (IF moderate THEN 1 ELSE 0)
                /\ IssueCountOfType("MODERATE_NULL_RATE", col)
                      = (IF moderate THEN 1 ELSE 0)

\* ten rows, one name null (10%: no issue) and five ages null (50%: MEDIUM)
C23_Witness ==
    /\ profPc = "returned"
    /\ Len(profInput.rows) = 10
    /\ null_count(profInput.rows, "name") = 1
    /\ null_count(profInput.rows, "age") = 5
    /\ IssueCount("MEDIUM", "MODERATE_NULL_RATE", "age") = 1
    /\ IssueCountOfType("MODERATE_NULL_RATE", "name") = 0

\* a frame of nine rows, six names null (HIGH) and nothing else
C23_WitnessHigh ==
    /\ profPc = "returned"
    /\ Len(profInput.rows) = 9
    /\ null_count(profInput.rows, "name") = 6
    /\ IssueCount("HIGH", "HIGH_NULL_RATE", "name") = 1

(* C24: a profiled frame gets exactly one MEDIUM issue DUPLICATES on column *)
(* ALL when two of its rows are identical and none otherwise, and exactly    *)
(* one HIGH issue EMPTY_COLUMN for each column all of whose values are null *)
(* and none for a column with a non-null value.                             *)
C24_DatasetIssues ==
    profPc = "returned" =>
        LET rows == profInput.rows
            duplicated == \E i, j \in DOMAIN rows : i # j /\ rows[i] = rows[j]
        IN  /\ IssueCount("MEDIUM", "DUPLICATES", "ALL") = (IF duplicated THEN 1 ELSE 0)
            /\ IssueCountOfType("DUPLICATES", "ALL") = (IF duplicated THEN 1 ELSE 0)
            /\ \A k \in DOMAIN profInput.columns :
                  LET col == profInput.columns[k]
                      empty == \A i \in DOMAIN rows : rows[i][col].null
                  IN  /\ IssueCount("HIGH", "EMPTY_COLUMN", col) = (IF empty THEN 1 ELSE 0)
                      /\ IssueCountOfType("EMPTY_COLUMN", col) = (IF empty THEN 1 ELSE 0)

\* a frame with duplicate rows, an empty column and a column that is not
C24_Witness ==
    /\ profPc = "returned"
    /\ IssueCount("MEDIUM", "DUPLICATES", "ALL") = 1
    /\ IssueCount("HIGH", "EMPTY_COLUMN", "age") = 1
    /\ IssueCountOfType("EMPTY_COLUMN", "name") = 0
    /\ null_count(profInput.rows, "name") > 0

\* a frame of distinct rows raises no DUPLICATES issue
C24_WitnessDistinct ==
    /\ profPc = "returned"
    /\ Len(profInput.rows) >= 3
    /\ IssueCountOfType("DUPLICATES", "ALL") = 0

----------------------------------------------------------------------------
(* Cardinality of the aggregates *)

RECURSIVE SumOrderCounts(_)
SumOrderCounts(out) ==
    IF out = <<>> THEN 0 ELSE Head(out).order_count + SumOrderCounts(Tail(out))

RECURSIVE SumTotalOrders(_)
SumTotalOrders(out) ==
    IF out = <<>> THEN 0 ELSE Head(out).total_orders + SumTotalOrders(Tail(out))

(* C25: the daily summary of a cleaned table has exactly one row for each   *)
(* distinct order date and the customer lifetime-value table exactly one    *)
(* row for each distinct customer, and in each the order counts of the      *)
(* groups add up to the number of input rows.                               *)
C25_AggregateCardinality ==
    /\ daily_sales # <<>> =>
          /\ \A i \in DOMAIN aggInput :
                Cardinality({k \in DOMAIN daily_sales[1] :
                    daily_sales[1][k].order_date = aggInput[i].order_date}) = 1
          /\ \A k \in DOMAIN daily_sales[1] :
                \E i \in DOMAIN aggInput :
                    aggInput[i].order_date = daily_sales[1][k].order_date
          /\ SumOrderCounts(daily_sales[1]) = Len(aggInput)
    /\ ltv # <<>> =>
          /\ \A i \in DOMAIN aggInput :
                Cardinality({k \in DOMAIN ltv[1] :
                    ltv[1][k].customer_id = aggInput[i].customer_id}) = 1
          /\ \A k \in DOMAIN ltv[1] :
                \E i \in DOMAIN aggInput : aggInput[i].customer_id = ltv[1][k].customer_id
          /\ SumTotalOrders(ltv[1]) = Len(aggInput)

\* three rows with two order dates and two customers give two rows in each
C25_Witness ==
    /\ Len(aggInput) = 3
    /\ Cardinality({aggInput[i].order_date : i \in DOMAIN aggInput}) = 2
    /\ Cardinality({aggInput[i].customer_id : i \in DOMAIN aggInput}) = 2
    /\ daily_sales # <<>> /\ Len(daily_sales[1]) = 2
    /\ ltv # <<>> /\ Len(ltv[1]) = 2

----------------------------------------------------------------------------
(* Issue types the remediation does not handle *)

HandledTypes == {"WHITESPACE", "DUPLICATES", "NEGATIVE_VALUES", "HIGH_NULL_RATE"}

\* the issue list without the issues of other types
RECURSIVE HandledIssues(_)
HandledIssues(issues) ==
    IF issues = <<>> THEN <<>>
    ELSE (IF Head(issues).type \in HandledTypes THEN <<Head(issues)>> ELSE <<>>)
         \o HandledIssues(Tail(issues))

(* C26: an issue of a type other than WHITESPACE, DUPLICATES,               *)
(* NEGATIVE_VALUES and HIGH_NULL_RATE is ignored: every call returns a      *)
(* frame and an action list that the call without these issues can return,  *)
(* a call with only such issues returns its input and no action, and no     *)
(* entry of the returned list or of the remediation log is for such an      *)
(* issue.                                                                   *)
C26_OtherTypesIgnored ==
    /\ \A k \in DOMAIN remResults :
          /\ HandledIssues(remIssues) # remIssues =>
                remResults[k] \in auto_remediate(CallInput(k), HandledIssues(remIssues))
          /\ HandledIssues(remIssues) = <<>> =>
                (remResults[k].df = CallInput(k) /\ remResults[k].actions = <<>>)
          /\ \A a \in DOMAIN remResults[k].actions :
                remResults[k].actions[a].issue.type \in HandledTypes
    /\ \A a \in DOMAIN remediation_log : remediation_log[a].issue.type \in HandledTypes
    /\ (\A i \in DOMAIN remIssues : remIssues[i].type \notin HandledTypes)
          => remediation_log = <<>>

\* a call with a MODERATE_NULL_RATE issue and a whitespace issue that trimmed
C26_Witness ==
    /\ remResults # <<>>
    /\ Len(remIssues) = 2
    /\ remIssues[1].type = "MODERATE_NULL_RATE"
    /\ remIssues[2].type = "WHITESPACE"
    /\ remResults[1].df # remInput
    /\ Len(remResults[1].actions) = 1

\* a call with nothing but MODERATE_NULL_RATE issues on a frame with rows
C26_WitnessOnly ==
    /\ remResults # <<>>
    /\ remIssues # <<>>
    /\ HandledIssues(remIssues) = <<>>
    /\ remInput.rows # <<>>

----------------------------------------------------------------------------
(* The remediation log *)

\* the actions a call hands back: its list when it returns, none when it raises
ReturnedActions(r) == IF r.status = "ok" THEN r.actions ELSE <<>>

(* C28: the remediation log is append-only: every auto_remediate call       *)
(* leaves the log equal to its previous content followed by exactly the     *)
(* actions that call returned, in order.                                    *)
C28_LogAppendOnly ==
    [][Len(remResults') > Len(remResults) =>
          remediation_log' =
              remediation_log \o ReturnedActions(remResults'[Len(remResults')])]_vars

----------------------------------------------------------------------------
(* Replacement of an aggregated table *)

(* C27: a create_gold_aggregate call that returns leaves gold.<name>        *)
(* holding exactly the rows of the new result, in their order, with no row  *)
(* of the previous version that the result does not contain, and the        *)
(* parquet file likewise; every other table of every schema is as it was    *)
(* before the call, also when the call raises.                              *)
C27_AggregateReplaced ==
    lastAggregate # <<>> =>
        LET c == lastAggregate[1]
            t == GoldTable(c.name)
        IN  /\ c.stage = "ok" =>
                  /\ dbTables[t] = <<c.result>>
                  /\ goldFiles[c.name] = <<c.result>>
                  /\ c.before[t] # <<>> =>
                        \A i \in DOMAIN c.before[t][1] :
                            (\E j \in DOMAIN dbTables[t][1] :
                                dbTables[t][1][j] = c.before[t][1][i])
                            => \E j \in DOMAIN c.result :
                                  c.result[j] = c.before[t][1][i]
            /\ \A u \in TableNames \ {t} : dbTables[u] = c.before[u]

\* a call that replaced a table built from other rows, next to another
\* aggregate that stayed
C27_Witness ==
    /\ lastAggregate # <<>>
    /\ lastAggregate[1].stage = "ok"
    /\ lastAggregate[1].name = "daily_sales"
    /\ lastAggregate[1].before["gold.daily_sales"] # <<>>
    /\ lastAggregate[1].before["gold.daily_sales"] # <<lastAggregate[1].result>>
    /\ lastAggregate[1].result # <<>>
    /\ dbTables["gold.customer_ltv"] # <<>>

----------------------------------------------------------------------------
(* The cleaned table and the remediation *)

(* C29: two runs over the same raw data, whatever the auto-remediation flag *)
(* of each and whatever the remediation returned, register identical        *)
(* cleaned tables.                                                          *)
C29_CleanedFromRawAlone ==
    (firstRun # <<>> /\ lastRun # <<>>) =>
        firstRun[1].registered = lastRun[1].registered

\* what does hold: two runs that both complete register the same rows with
\* the same multiplicities, whatever the flag and the remediated frame
RunsRegisterSameRows ==
    (firstRun # <<>> /\ lastRun # <<>>
        /\ firstRun[1].outcome = "completed" /\ lastRun[1].outcome = "completed")
    => SameFrame(firstRun[1].registered[1], lastRun[1].registered[1])

----------------------------------------------------------------------------
(* Duplicates in the cleaned table *)

(* C30: no cleaned table that promote_to_silver registered contains two     *)
(* identical rows, whatever the raw table, also when raw rows differ only   *)
(* in leading or trailing whitespace of a text value.                       *)
C30_CleanedRowsDistinct ==
    \A k \in DOMAIN promoteHistory :
        LET rows == promoteHistory[k].registered.rows IN
        \A i, j \in DOMAIN rows : i # j => rows[i] # rows[j]

====
